---- MODULE Spec2Model ----
(***************************************************************************)
(* A model of the mDNS/DNS-SD client engine of NullYing/zeroconf:          *)
(* newClient, Resolver.Browse / Resolver.Lookup, client.mainloop (the      *)
(* scheduler with the inline record correlator), client.recv /             *)
(* client.recvUnicast (the receive activities), client.periodicQuery,      *)
(* client.query / client.sendQuery and client.shutdown.                    *)
(*                                                                         *)
(* Strings are sequences of atoms ("Host", ".", "_svc", ...): the string   *)
(* is the concatenation of its atoms, so HasSuffix, Replace and trimDot    *)
(* are computed on the sequence as the Go code computes them on the bytes. *)
(***************************************************************************)
EXTENDS Integers, Sequences, FiniteSets, TLC

\* ------------------------------------------------------------------ bounds

\* datagrams the network delivers to the sockets in one run
MaxDatagrams == 3
\* periodic queries one session sends before the backoff timer is left unarmed
MaxPeriodic == 1
\* datagrams that arrive when every combination of sockets is tried
MaxSweepDatagrams == 1
\* datagrams that arrive when two sessions share one Resolver
MaxSharedDatagrams == 0

\* datagrams that arrive when every pattern of failing writes is tried
MaxSendDatagrams == 0

\* datagrams that arrive while a consumer has stopped receiving: enough to
\* fill the message channel behind the blocked scheduler, and one more
MaxBurst == 268

\* ------------------------------------------------------- program constants

\* capacity of the message channel: make(chan *dnsMsg, 265)
MsgChCap == 265
IPv4 == 1
IPv6 == 2
IPv4AndIPv6 == 3

\* ----------------------------------------------------------------- strings

Dot == "."
EmptyStr == << >>

HasPrefix(s, p) == Len(p) <= Len(s) /\ SubSeq(s, 1, Len(p)) = p

\* strings.HasSuffix
HasSuffix(s, suf) ==
    Len(suf) <= Len(s) /\ SubSeq(s, Len(s) - Len(suf) + 1, Len(s)) = suf

RECURSIVE ReplaceN(_, _, _)
\* strings.Replace(s, old, "", n) for a non-empty old: n < 0 replaces all
ReplaceN(s, old, n) ==
    IF s = << >> \/ n = 0 THEN s
    ELSE IF HasPrefix(s, old)
         THEN ReplaceN(SubSeq(s, Len(old) + 1, Len(s)), old, n - 1)
         ELSE << Head(s) >> \o ReplaceN(Tail(s), old, n)

RECURSIVE TrimLeftDot(_)
TrimLeftDot(s) ==
    IF s # << >> /\ Head(s) = Dot THEN TrimLeftDot(Tail(s)) ELSE s

RECURSIVE TrimRightDot(_)
TrimRightDot(s) ==
    IF s # << >> /\ s[Len(s)] = Dot
    THEN TrimRightDot(SubSeq(s, 1, Len(s) - 1)) ELSE s

\* trimDot: strings.Trim(s, ".")
trimDot(s) == TrimRightDot(TrimLeftDot(s))

\* ------------------------------------------------------------------- names

SvcType == << "_svc", Dot, "_tcp" >>
EnumType == << "_services", Dot, "_dns-sd", Dot, "_udp" >>
BadType == << "_svc", Dot, Dot, "_tcp" >>
Local == << "local" >>

\* ServiceRecord.ServiceName: "<type>.<domain>."
ServiceNameOf(service, domain) ==
    trimDot(service) \o << Dot >> \o trimDot(domain) \o << Dot >>

\* ServiceRecord.ServiceInstanceName: "<instance>.<type>.<domain>." when the
\* instance is set, "" otherwise
ServiceInstanceNameOf(instance, service, domain) ==
    IF instance = EmptyStr THEN EmptyStr
    ELSE trimDot(instance) \o << Dot >> \o ServiceNameOf(service, domain)

\* ServiceRecord.ServiceTypeName: "_services._dns-sd._udp.<domain>."
ServiceTypeNameOf(domain) ==
    EnumType \o << Dot >> \o trimDot(domain) \o << Dot >>

SvcName == ServiceNameOf(SvcType, Local)
TypeName == ServiceTypeNameOf(Local)
AltName == << "_alt", Dot, "_tcp", Dot, "local", Dot >>
Inst1 == << "Host" >>
Inst2 == << "Other" >>
I1 == Inst1 \o << Dot >> \o SvcName
I2 == Inst2 \o << Dot >> \o SvcName
IAlt == Inst1 \o << Dot >> \o AltName
\* "x_svc._tcp.local.": ends in the service name without a label boundary
IGlued == << "x" >> \o SvcName
Host1 == << "host", Dot, "local", Dot >>
Host2 == << "other", Dot, "local", Dot >>

\* --------------------------------------------------------------- addresses

\* a net.IP: its length in bytes and its value
NilIP == [len |-> 0, v |-> ""]
IP4(v) == [len |-> 4, v |-> v]
IP6(v) == [len |-> 16, v |-> v]
Addr4 == IP4("192.168.1.10")
Addr6 == IP6("fe80::10")

\* ----------------------------------------------------------------- records

RR(type, name, ttl, ptr, target, port, txt, ip) ==
    [type |-> type, name |-> name, ttl |-> ttl, ptr |-> ptr,
     target |-> target, port |-> port, txt |-> txt, ip |-> ip]
PTR(name, ptr, ttl) == RR("PTR", name, ttl, ptr, EmptyStr, 0, << >>, NilIP)
SRV(name, target, port, ttl) ==
    RR("SRV", name, ttl, EmptyStr, target, port, << >>, NilIP)
TXT(name, txt, ttl) == RR("TXT", name, ttl, EmptyStr, EmptyStr, 0, txt, NilIP)
A(name, ip) == RR("A", name, 120, EmptyStr, EmptyStr, 0, << >>, ip)
AAAA(name, ip) == RR("AAAA", name, 120, EmptyStr, EmptyStr, 0, << >>, ip)

\* ------------------------------------------------------------ lookupParams

\* the consumer at the other end of an entries channel: it receives what is
\* sent, or it has stopped receiving
Reading == "reading"
Stalled == "stalled"

\* newLookupParams(instance, service, domain, isBrowsing, entries)
newLookupParams(instance, service, domain, isBrowsing) ==
    [Instance |-> instance, Service |-> service, Domain |-> domain,
     Subtypes |-> << >>, isBrowsing |-> isBrowsing, Entries |-> Reading]

ServiceName(p) == ServiceNameOf(p.Service, p.Domain)
ServiceInstanceName(p) ==
    ServiceInstanceNameOf(p.Instance, p.Service, p.Domain)
ServiceTypeName(p) == ServiceTypeNameOf(p.Domain)

\* ------------------------------------------------------------ ServiceEntry

\* NewServiceEntry(instance, service, domain): every other field zero
NewServiceEntry(instance, service, domain) ==
    [Instance |-> instance, Service |-> service, Domain |-> domain,
     HostName |-> EmptyStr, Port |-> 0, Text |-> << >>, TTL |-> 0,
     AddrIPv4 |-> << >>, AddrIPv6 |-> << >>, SrcAddr |-> NilIP]

\* m with m[k] set to v, k added to the map when it is not a key yet
MapPut(m, k, v) == [x \in DOMAIN m \cup {k} |-> IF x = k THEN v ELSE m[x]]
MapDel(m, k) == [x \in DOMAIN m \ {k} |-> m[x]]
EmptyMap == [x \in {} |-> 0]

\* -------------------------------------------------------------- correlator

\* mainloop, case *dns.PTR: the header name is the ServiceName and, in an
\* instance lookup, the target is the ServiceInstanceName
PtrMatches(p, rr) ==
    /\ ServiceName(p) = rr.name
    /\ ~(ServiceInstanceName(p) # EmptyStr /\ ServiceInstanceName(p) # rr.ptr)

\* a matcher for SRV and TXT records that accepts every instance of the type
InstanceRecordMatches_AnyInstance(p, rr) == HasSuffix(rr.name, ServiceName(p))

\* a matcher for SRV and TXT records that does not look at the suffix
InstanceRecordMatches_NoSuffix(p, rr) ==
    ~(ServiceInstanceName(p) # EmptyStr /\ ServiceInstanceName(p) # rr.name)

\* mainloop, case *dns.SRV and case *dns.TXT: the header name is the
\* ServiceInstanceName (instance lookup) and ends in the ServiceName
InstanceRecordMatches(p, rr) ==
    /\ ~(ServiceInstanceName(p) # EmptyStr /\ ServiceInstanceName(p) # rr.name)
    /\ HasSuffix(rr.name, ServiceName(p))

EntryAt(p, entries, key, instance) ==
    IF key \in DOMAIN entries THEN entries[key]
    ELSE NewServiceEntry(instance, p.Service, p.Domain)

\* one iteration of the first loop over the sections; src is the envelope's
\* source address: src.isUDP when it is a *net.UDPAddr, src.IP its IP
Pass1Record(p, src, entries, rr) ==
    IF rr.type = "PTR" /\ PtrMatches(p, rr) THEN
        LET e == EntryAt(p, entries, rr.ptr,
                         trimDot(ReplaceN(rr.ptr, rr.name, -1)))
        IN  MapPut(entries, rr.ptr, [e EXCEPT !.TTL = rr.ttl])
    ELSE IF rr.type = "SRV" /\ InstanceRecordMatches(p, rr) THEN
        LET e == EntryAt(p, entries, rr.name,
                         trimDot(ReplaceN(rr.name, ServiceName(p), 1)))
        IN  MapPut(entries, rr.name,
                   [e EXCEPT !.SrcAddr = IF src.isUDP THEN src.IP ELSE @,
                             !.HostName = rr.target,
                             !.Port = rr.port,
                             !.TTL = rr.ttl])
    ELSE IF rr.type = "TXT" /\ InstanceRecordMatches(p, rr) THEN
        LET e == EntryAt(p, entries, rr.name,
                         trimDot(ReplaceN(rr.name, ServiceName(p), 1)))
        IN  MapPut(entries, rr.name,
                   [e EXCEPT !.Text = rr.txt, !.TTL = rr.ttl])
    ELSE entries

RECURSIVE Pass1(_, _, _, _)
Pass1(p, src, entries, sections) ==
    IF sections = << >> THEN entries
    ELSE Pass1(p, src, Pass1Record(p, src, entries, Head(sections)),
               Tail(sections))

\* one iteration of the second loop: an A / AAAA record is appended to every
\* entry whose HostName is the record's header name
Pass2Record(entries, rr) ==
    [k \in DOMAIN entries |->
        IF rr.type = "A" /\ entries[k].HostName = rr.name
        THEN [entries[k] EXCEPT !.AddrIPv4 = Append(@, rr.ip)]
        ELSE IF rr.type = "AAAA" /\ entries[k].HostName = rr.name
        THEN [entries[k] EXCEPT !.AddrIPv6 = Append(@, rr.ip)]
        ELSE entries[k]]

RECURSIVE Pass2(_, _)
Pass2(entries, sections) ==
    IF sections = << >> THEN entries
    ELSE Pass2(Pass2Record(entries, Head(sections)), Tail(sections))

\* the two loops fused into one: an address record is associated as soon as
\* it is met
RECURSIVE OnePass(_, _, _, _)
OnePass(p, src, entries, sections) ==
    IF sections = << >> THEN entries
    ELSE OnePass(p, src,
                 Pass2Record(Pass1Record(p, src, entries, Head(sections)),
                             Head(sections)),
                 Tail(sections))

Correlate_OnePass(p, env) == OnePass(p, env.src, EmptyMap, env.msg)

\* the entries map the scheduler holds after the two loops over one envelope
Correlate(p, env) ==
    Pass2(Pass1(p, env.src, EmptyMap, env.msg), env.msg)

\* the two loops run over the map the previous envelope left behind
Received_Carry(p, old, env) ==
    Pass2(Pass1(p, env.src, old, env.msg), env.msg)

\* case dnsMsgData := <-msgCh with old the entries map of the previous
\* envelope: entries = make(map[string]*ServiceEntry), then the two loops
Received(p, old, env) == Correlate(p, env)

\* a goodbye test that never recognises TTL=0
IsGoodbye_Negative(e) == e.TTL < 0

\* if e.TTL == 0
IsGoodbye(e) == e.TTL = 0

\* the sentEntries lookup left out
AlreadySent_Never(sent, k) == FALSE

\* if _, ok := sentEntries[k]; ok
AlreadySent(sent, k) == k \in sent

\* delete(sentEntries, k) left out
Forget_Keep(sent, k) == sent

\* delete(sentEntries, k)
Forget(sent, k) == sent \ {k}

\* sentEntries[k] = e left out
Remember_Drop(sent, k) == sent

\* sentEntries[k] = e
Remember(sent, k) == sent \cup {k}

\* an emission loop without the exemption of the service-type enumeration
RequiresAddress_Always(p) == TRUE

\* params.ServiceRecord.ServiceTypeName() != params.ServiceRecord.ServiceName()
RequiresAddress(p) == ServiceTypeName(p) # ServiceName(p)

NoAddress(e) == Len(e.AddrIPv4) = 0 /\ Len(e.AddrIPv6) = 0

\* what one iteration of the emission loop does with entry e under key k
\* an emission loop that skips every entry without a resolved address
EntryAction_NoFallback(p, sent, k, e) ==
    IF IsGoodbye(e) THEN "bye"
    ELSE IF AlreadySent(sent, k) THEN "skip"
    ELSE IF RequiresAddress(p) /\ NoAddress(e) THEN "skip"
    ELSE "send"

EntryAction(p, sent, k, e) ==
    IF IsGoodbye(e) THEN "bye"
    ELSE IF AlreadySent(sent, k) THEN "skip"
    ELSE IF RequiresAddress(p) /\ NoAddress(e) /\ e.SrcAddr.len = 0
         THEN "skip"
    ELSE "send"

\* the source address not appended
WithFallback_None(p, e) == e

\* e.AddrIPv4 = append(e.AddrIPv4, e.SrcAddr) when no address was resolved
WithFallback(p, e) ==
    IF RequiresAddress(p) /\ NoAddress(e)
    THEN [e EXCEPT !.AddrIPv4 = Append(@, e.SrcAddr)]
    ELSE e

\* disableProbing called in browse sessions too
StopsProbing_Always(p) == TRUE

\* disableProbing never called
StopsProbing_Never(p) == FALSE

\* if !params.isBrowsing { params.disableProbing() }
StopsProbing(p) == ~p.isBrowsing

\* ------------------------------------------------------------------ query

Question(name, qtype) == [Name |-> name, Qtype |-> qtype, Qclass |-> "IN"]

\* the subtype question asked ahead of the instance questions
QueryMsg_SubtypesFirst(p) ==
    LET serviceName == trimDot(p.Service) \o << Dot >> \o trimDot(p.Domain)
                       \o << Dot >>
    IN  [RecursionDesired |-> FALSE,
         Question |->
            IF Len(p.Subtypes) > 0
            THEN << Question(p.Subtypes[1], "PTR") >>
            ELSE IF p.Instance # EmptyStr
            THEN << Question(p.Instance \o << Dot >> \o serviceName, "SRV"),
                    Question(p.Instance \o << Dot >> \o serviceName, "TXT") >>
            ELSE << Question(serviceName, "PTR") >>]

\* client.query: the message sent for params p
QueryMsg(p) ==
    LET serviceName == trimDot(p.Service) \o << Dot >> \o trimDot(p.Domain)
                       \o << Dot >>
    IN  [RecursionDesired |-> FALSE,
         Question |->
            IF p.Instance # EmptyStr
            THEN << Question(p.Instance \o << Dot >> \o serviceName, "SRV"),
                    Question(p.Instance \o << Dot >> \o serviceName, "TXT") >>
            ELSE IF Len(p.Subtypes) > 0
            THEN << Question(p.Subtypes[1], "PTR") >>
            ELSE << Question(serviceName, "PTR") >>]

\* msg.Pack fails on a name with an empty label
NameOK(n) == \A i \in 1 .. Len(n) - 1 : ~(n[i] = Dot /\ n[i + 1] = Dot)
PackOK(m) == \A i \in 1 .. Len(m.Question) : NameOK(m.Question[i].Name)

\* ----------------------------------------------------------------- sockets

Multicast4 == "m4"
Multicast6 == "m6"
Unicast4 == {"u4"}
Unicast6 == {"u6"}
SockIds == {Multicast4, Multicast6} \cup Unicast4 \cup Unicast6

IsV4(c) == c = Multicast4 \/ c \in Unicast4

\* the source address ReadFrom reports for a datagram read from socket c
SrcOf(c) ==
    IF IsV4(c) THEN [isUDP |-> TRUE, IP |-> IP4("192.168.1.10")]
    ELSE [isUDP |-> TRUE, IP |-> IP6("fe80::10")]

NoConn == {}
NilList == [isNil |-> TRUE, conns |-> {}]
List(cs) == [isNil |-> FALSE, conns |-> cs]

\* clientOpts: a connection is the set holding its socket, {} when nil
MkOpts(listenOn, ifaces, enableUnicast, c4, c6, u4, u6) ==
    [listenOn |-> listenOn, ifaces |-> ifaces, enableUnicast |-> enableUnicast,
     customIPv4Conn |-> c4, customIPv6Conn |-> c6,
     customIPv4Unicast |-> u4, customIPv6Unicast |-> u6]

\* what the host lets the engine do: which binds succeed, on which
\* interfaces each family's group join succeeds, the up+multicast interfaces,
\* the unicast listeners createUnicastListeners can open, runtime.GOOS, and
\* the <<socket, interface>> pairs on which SetMulticastInterface and WriteTo
\* fail
MkHost(bind4, bind6, join4, join6, multicastIfaces, uni4, uni6, goos, selectFail, writeFail) ==
    [bind4 |-> bind4, bind6 |-> bind6, join4 |-> join4, join6 |-> join6,
     multicastIfaces |-> multicastIfaces, uni4 |-> uni4, uni6 |-> uni6,
     goos |-> goos, selectFail |-> selectFail, writeFail |-> writeFail]

\* the socket given up as soon as one join fails
JoinMulticast_AllOrNothing(sock, bindOK, joinOK, interfaces0, host) ==
    LET interfaces == IF interfaces0 = {} THEN host.multicastIfaces
                      ELSE interfaces0
    IN  IF ~bindOK THEN [err |-> TRUE, conn |-> NoConn, closed |-> {}]
        ELSE IF interfaces \ joinOK # {}
        THEN [err |-> TRUE, conn |-> NoConn, closed |-> {sock}]
        ELSE [err |-> FALSE, conn |-> {sock}, closed |-> {}]

\* joinUdp4Multicast / joinUdp6Multicast: the socket, or an error (with the
\* socket closed when every join failed)
JoinMulticast(sock, bindOK, joinOK, interfaces0, host) ==
    LET interfaces == IF interfaces0 = {} THEN host.multicastIfaces
                      ELSE interfaces0
        failedJoins == Cardinality(interfaces \ joinOK)
    IN  IF ~bindOK THEN [err |-> TRUE, conn |-> NoConn, closed |-> {}]
        ELSE IF failedJoins = Cardinality(interfaces)
        THEN [err |-> TRUE, conn |-> NoConn, closed |-> {sock}]
        ELSE [err |-> FALSE, conn |-> {sock}, closed |-> {}]

joinUdp4Multicast(interfaces, host) ==
    JoinMulticast(Multicast4, host.bind4, host.join4, interfaces, host)

joinUdp6Multicast(interfaces, host) ==
    JoinMulticast(Multicast6, host.bind6, host.join6, interfaces, host)

\* the bit AND of listenOn with a family flag is positive
Listens(listenOn, fam) == (listenOn = fam) \/ (listenOn = IPv4AndIPv6)

\* a custom v4 connection taken for the engine's own
Ipv4connManaged_Own(opts) == FALSE

\* ipv4connManaged as newClient sets it
Ipv4connManaged(opts) == opts.customIPv4Conn # NoConn
\* ipv6connManaged as newClient sets it
Ipv6connManaged(opts) == opts.customIPv6Conn # NoConn
\* ipv4unicastConnManaged / ipv6unicastConnManaged as newClient sets them
UnicastConnManaged(opts) ==
    ~opts.customIPv4Unicast.isNil \/ ~opts.customIPv6Unicast.isNil

FailedClient ==
    [ok |-> FALSE, ipv4conn |-> NoConn, ipv6conn |-> NoConn,
     ipv4unicastConn |-> {}, ipv6unicastConn |-> {}, ifaces |-> {},
     ipv4connManaged |-> FALSE, ipv6connManaged |-> FALSE,
     ipv4unicastConnManaged |-> FALSE, ipv6unicastConnManaged |-> FALSE]

\* newClient: the client, or FailedClient when it returns an error
newClient(opts, host) ==
    LET ifaces == IF opts.ifaces = {} THEN host.multicastIfaces ELSE opts.ifaces
        j4 == joinUdp4Multicast(ifaces, host)
        j6 == joinUdp6Multicast(ifaces, host)
        own4 == opts.customIPv4Conn = NoConn /\ Listens(opts.listenOn, IPv4)
        own6 == opts.customIPv6Conn = NoConn /\ Listens(opts.listenOn, IPv6)
    IN  IF own4 /\ j4.err THEN FailedClient
        ELSE IF own6 /\ j6.err THEN FailedClient
        ELSE
        [ok |-> TRUE,
         ipv4conn |-> IF opts.customIPv4Conn # NoConn THEN opts.customIPv4Conn
                      ELSE IF own4 THEN j4.conn ELSE NoConn,
         ipv6conn |-> IF opts.customIPv6Conn # NoConn THEN opts.customIPv6Conn
                      ELSE IF own6 THEN j6.conn ELSE NoConn,
         ipv4unicastConn |->
            IF UnicastConnManaged(opts) THEN opts.customIPv4Unicast.conns
            ELSE IF opts.enableUnicast /\ Listens(opts.listenOn, IPv4)
            THEN host.uni4 ELSE {},
         ipv6unicastConn |->
            IF UnicastConnManaged(opts) THEN opts.customIPv6Unicast.conns
            ELSE IF opts.enableUnicast /\ Listens(opts.listenOn, IPv6)
            THEN host.uni6 ELSE {},
         ifaces |-> ifaces,
         ipv4connManaged |-> Ipv4connManaged(opts),
         ipv6connManaged |-> Ipv6connManaged(opts),
         ipv4unicastConnManaged |-> UnicastConnManaged(opts),
         ipv6unicastConnManaged |-> UnicastConnManaged(opts)]

\* the sockets the caller handed in through WithCustomConn
CallerSockets(opts) ==
    opts.customIPv4Conn \cup opts.customIPv6Conn
        \cup opts.customIPv4Unicast.conns \cup opts.customIPv6Unicast.conns

\* every socket of client c: mainloop starts one receive activity on each
ClientSockets(c) ==
    c.ipv4conn \cup c.ipv6conn \cup c.ipv4unicastConn \cup c.ipv6unicastConn

\* client.shutdown: the sockets it calls Close on
ShutdownCloses(c) ==
    (IF ~c.ipv4connManaged THEN c.ipv4conn ELSE {})
        \cup (IF ~c.ipv6connManaged THEN c.ipv6conn ELSE {})
        \cup (IF ~c.ipv4unicastConnManaged THEN c.ipv4unicastConn ELSE {})
        \cup (IF ~c.ipv6unicastConnManaged THEN c.ipv6unicastConn ELSE {})

RECURSIVE IfaceSeq(_)
\* the interfaces of c.ifaces in slice order
IfaceSeq(S) ==
    IF S = {} THEN << >>
    ELSE LET m == CHOOSE x \in S : \A y \in S : x <= y
         IN  << m >> \o IfaceSeq(S \ {m})

\* one iteration of a loop of sendQuery over c.ifaces: the interface is put
\* in the control message, or SetMulticastInterface is tried and its error
\* only logged; then WriteTo, whose result is dropped
WriteOn(h, closed, sock, ifi) ==
    [sock |-> sock, iface |-> ifi,
     selected |-> h.goos \in {"darwin", "ios", "linux"}
                    \/ << sock, ifi >> \notin h.selectFail,
     ok |-> << sock, ifi >> \notin h.writeFail /\ sock \notin closed]

\* the loop over c.ifaces left at the first write that fails
WritesOn_StopAtFailure(c, h, closed, conn) ==
    LET is == IfaceSeq(c.ifaces)
        sock == CHOOSE x \in conn : TRUE
        bad == {i \in 1 .. Len(is) : ~WriteOn(h, closed, sock, is[i]).ok}
        last == IF bad = {} THEN Len(is)
                ELSE CHOOSE i \in bad : \A j \in bad : i <= j
    IN  IF conn = NoConn THEN << >>
        ELSE [i \in 1 .. last |-> WriteOn(h, closed, sock, is[i])]

\* the writes sendQuery makes on one multicast connection
WritesOn(c, h, closed, conn) ==
    LET is == IfaceSeq(c.ifaces)
    IN  IF conn = NoConn THEN << >>
        ELSE [i \in 1 .. Len(is) |->
                WriteOn(h, closed, CHOOSE x \in conn : TRUE, is[i])]

\* ipv4Addr and ipv6Addr: the mDNS group of each family, port 5353
mdnsGroupIPv4 == IP4("224.0.0.251")
mdnsGroupIPv6 == IP6("ff02::fb")
ipv4Addr == [IP |-> mdnsGroupIPv4, Port |-> 5353]
ipv6Addr == [IP |-> mdnsGroupIPv6, Port |-> 5353]

\* buf, err := msg.Pack(): the buffer, known by the message it encodes
Pack(msg) == [encodes |-> msg]

\* the writes ws as WriteTo(buf, &wcm, dst) calls
WriteTo(ws, buf, dst) ==
    [i \in 1 .. Len(ws) |->
        [sock |-> ws[i].sock, iface |-> ws[i].iface,
         selected |-> ws[i].selected, ok |-> ws[i].ok,
         buf |-> buf, to |-> dst]]

\* a sendQuery that goes on to the unicast listeners of each family
sendQuery_AlsoUnicast(c, h, closed, msg) ==
    LET buf == Pack(msg)
    IN  IF ~PackOK(msg) THEN [err |-> TRUE, msg |-> msg, writes |-> << >>]
        ELSE [err |-> FALSE, msg |-> msg,
              writes |->
                WriteTo(WritesOn(c, h, closed, c.ipv4conn), buf, ipv4Addr)
                    \o WriteTo(WritesOn(c, h, closed, c.ipv4unicastConn),
                               buf, ipv4Addr)
                    \o WriteTo(WritesOn(c, h, closed, c.ipv6conn), buf,
                               ipv6Addr)
                    \o WriteTo(WritesOn(c, h, closed, c.ipv6unicastConn),
                               buf, ipv6Addr)]

\* client.sendQuery(msg) on host h while the sockets in closed are closed:
\* the error it returns and the writes it made, in order
sendQuery(c, h, closed, msg) ==
    LET buf == Pack(msg)
    IN  IF ~PackOK(msg) THEN [err |-> TRUE, msg |-> msg, writes |-> << >>]
        ELSE [err |-> FALSE, msg |-> msg,
              writes |->
                WriteTo(WritesOn(c, h, closed, c.ipv4conn), buf, ipv4Addr)
                    \o WriteTo(WritesOn(c, h, closed, c.ipv6conn), buf,
                               ipv6Addr)]

\* client.query(params)
query(c, h, closed, p) == sendQuery(c, h, closed, QueryMsg(p))

\* ------------------------------------------------------------------- state

Sessions == {1, 2}

VARIABLES
    opts,          \* clientOpts handed to NewResolver
    host,          \* what the host lets the socket factory do
    client,        \* the client newClient built (FailedClient on error)
    net,           \* the datagrams the network may deliver
    calls,         \* the Browse / Lookup calls the caller may make
    allowed,       \* the sessions the caller may start
    budget,        \* datagrams the network still delivers
    closeCalls,    \* per socket: how often the engine called Close on it
    params,        \* per session: its lookupParams
    callerPc,      \* per session: where Browse / Lookup stands
    cancelled,     \* per session: ctx.Done() is closed
    schedPc,       \* per session: where mainloop stands
    msgCh,         \* per session: the message channel
    entries,       \* per session: mainloop's entries map
    pending,       \* per session: keys the emission loop has not visited yet
    cur,           \* per session: the key whose entry is being sent
    sentEntries,   \* per session: the keys of mainloop's sentEntries map
    processed,     \* per session: the envelopes mainloop took off msgCh
    outLog,        \* per session: what the consumer received on Entries
    streamCloses,  \* per session: how often Entries was closed
    stopProbing,   \* per session: the stopProbing channel is closed
    recvPc,        \* per session and socket: where recv / recvUnicast stands
    recvMsg,       \* per session and socket: the envelope it is enqueueing
    dropped,       \* per session and socket: datagrams that did not unpack
    pqPc,          \* per session: where periodicQuery stands
    pqSent,        \* per session: periodic queries sent
    wire           \* per session: what each call of client.query did

config == << opts, host, client, net, calls, allowed >>
schedVars == << schedPc, msgCh, entries, pending, cur, sentEntries, processed,
                outLog, streamCloses, stopProbing >>
recvVars == << recvPc, recvMsg, dropped >>
pqVars == << pqPc, pqSent, wire >>
vars == << opts, host, client, net, calls, allowed, budget, closeCalls, params,
           callerPc, cancelled, schedPc, msgCh, entries, pending, cur,
           sentEntries, processed, outLog, streamCloses, stopProbing, recvPc,
           recvMsg, dropped, pqPc, pqSent, wire >>

\* ------------------------------------------------------------- environment

Dns(msg) == [kind |-> "dns", msg |-> msg]
\* a datagram that msg.Unpack rejects
Junk == [kind |-> "junk", msg |-> << >>]
NoEnvelope == [msg |-> << >>, src |-> [isUDP |-> FALSE, IP |-> NilIP]]

\* scenario 1: PTR, SRV, TXT and A for instance Host
FullResponse ==
    Dns(<< PTR(SvcName, I1, 120), SRV(I1, Host1, 9, 120),
           TXT(I1, << "a=1" >>, 120), A(Host1, Addr4) >>)
\* the address record ahead of the SRV record, and an AAAA record
FullResponseAddrFirst ==
    Dns(<< AAAA(Host1, Addr6), SRV(I1, Host1, 9, 120) >>)
\* scenario 2: no A / AAAA record
NoAddrResponse == Dns(<< PTR(SvcName, I1, 120), SRV(I1, Host1, 9, 120) >>)
\* scenario 3: the goodbye for instance Host
Goodbye == Dns(<< SRV(I1, Host1, 9, 0) >>)
\* a PTR alone: an entry with neither an address nor a source address
PtrOnly == Dns(<< PTR(SvcName, I1, 120) >>)
\* two instances on one host, one of them withdrawn
TwoInstances ==
    Dns(<< SRV(I1, Host1, 9, 120), SRV(I2, Host1, 10, 120),
           TXT(I2, << >>, 0), A(Host1, Addr4) >>)
\* an answer to the service-type enumeration, and its withdrawal
EnumResponse == Dns(<< PTR(TypeName, SvcName, 120) >>)
EnumGoodbye == Dns(<< PTR(TypeName, SvcName, 0) >>)
\* records of another service type
ForeignResponse ==
    Dns(<< PTR(AltName, IAlt, 120), SRV(IAlt, Host2, 9, 120),
           A(Host2, Addr4) >>)

\* records of the browsed type interleaved with records of another type that
\* name the same instance, the same host and a withdrawn TTL
MixedResponse ==
    Dns(<< PTR(SvcName, I1, 120), SRV(I1, Host1, 9, 120),
           PTR(AltName, I1, 0), SRV(IAlt, Host1, 10, 0),
           TXT(IAlt, << "b=2" >>, 0), A(Host1, Addr4) >>)

\* a TXT record alone: an entry with a text, no address and no source address
TxtOnly == Dns(<< TXT(I1, << "a=1" >>, 120) >>)
\* an SRV record alone: an entry that only the source address completes
SrvOnly == Dns(<< SRV(I1, Host1, 9, 120) >>)
\* a complete response for instance Other on its own host
OtherResponse ==
    Dns(<< PTR(SvcName, I2, 120), SRV(I2, Host2, 10, 120),
           TXT(I2, << "c=3" >>, 120), A(Host2, Addr4) >>)

\* r.Browse(ctx, service, domain, subtypes, entries)
BrowseSubCall(service, domain, subtypes) ==
    [op |-> "Browse", instance |-> EmptyStr, service |-> service,
     domain |-> domain, subtypes |-> subtypes, entries |-> Reading]
BrowseCall(service, domain) == BrowseSubCall(service, domain, << >>)
\* r.Lookup(ctx, instance, service, domain, entries)
LookupCall(instance, service, domain) ==
    [op |-> "Lookup", instance |-> instance, service |-> service,
     domain |-> domain, subtypes |-> << >>, entries |-> Reading]
\* the call with an entries channel nobody receives from
WithStalledConsumer(call) == [call EXCEPT !.entries = Stalled]

NoParams == newLookupParams(EmptyStr, << >>, << >>, FALSE)

\* the state after NewResolver(options...) returned, for options o on host h,
\* a network delivering at most n datagrams out of ds, and a caller making
\* the calls cs in the sessions ss
InitWith(o, h, ds, n, cs, ss) ==
    /\ opts = o
    /\ host = h
    /\ client = newClient(opts, host)
    /\ net = ds
    /\ calls = cs
    /\ allowed = ss
    /\ budget = n
    /\ closeCalls = [c \in SockIds |-> 0]
    /\ params = [s \in Sessions |-> NoParams]
    /\ callerPc = [s \in Sessions |-> "idle"]
    /\ cancelled = [s \in Sessions |-> FALSE]
    /\ schedPc = [s \in Sessions |-> "off"]
    /\ msgCh = [s \in Sessions |-> << >>]
    /\ entries = [s \in Sessions |-> EmptyMap]
    /\ pending = [s \in Sessions |-> {}]
    /\ cur = [s \in Sessions |-> EmptyStr]
    /\ sentEntries = [s \in Sessions |-> {}]
    /\ processed = [s \in Sessions |-> << >>]
    /\ outLog = [s \in Sessions |-> << >>]
    /\ streamCloses = [s \in Sessions |-> 0]
    /\ stopProbing = [s \in Sessions |-> FALSE]
    /\ recvPc = [s \in Sessions |-> [c \in SockIds |-> "off"]]
    /\ recvMsg = [s \in Sessions |-> [c \in SockIds |-> NoEnvelope]]
    /\ dropped = [s \in Sessions |-> [c \in SockIds |-> 0]]
    /\ pqPc = [s \in Sessions |-> "never"]
    /\ pqSent = [s \in Sessions |-> 0]
    /\ wire = [s \in Sessions |-> << >>]

\* the sockets Close was called on
Closed == {c \in SockIds : closeCalls[c] > 0}

\* --------------------------------------------------------- Browse / Lookup

\* Browse and Lookup up to `go r.c.mainloop(ctx, params)`: the parameters are
\* built and the scheduler is started
StartCall(s, call) ==
    /\ client.ok
    /\ s \in allowed
    /\ callerPc[s] = "idle"
    /\ params' = [params EXCEPT ![s] =
                    [newLookupParams(call.instance, call.service,
                                     IF call.domain # EmptyStr THEN call.domain
                                     ELSE Local,
                                     call.op = "Browse")
                        EXCEPT !.Subtypes = call.subtypes,
                               !.Entries = call.entries]]
    /\ callerPc' = [callerPc EXCEPT ![s] = "query"]
    /\ schedPc' = [schedPc EXCEPT ![s] = "start"]
    /\ UNCHANGED << config, budget, closeCalls, cancelled, msgCh, entries,
                    pending, cur, sentEntries, processed, outLog, streamCloses,
                    stopProbing, recvVars, pqVars >>

Browse(s) == \E call \in calls : call.op = "Browse" /\ StartCall(s, call)

Lookup(s) == \E call \in calls : call.op = "Lookup" /\ StartCall(s, call)

\* the cancel() before `return err` left out
CancelsOnError_Never(r) == FALSE

\* err := r.c.query(params); if err != nil { cancel(); return err }
CancelsOnError(r) == r.err

\* the rest of Browse / Lookup: the initial query; on an error the session is
\* cancelled and the error returned, otherwise periodicQuery is started
InitialQuery(s) ==
    /\ callerPc[s] = "query"
    /\ LET r == query(client, host, Closed, params[s])
       IN  /\ wire' = [wire EXCEPT ![s] = Append(@, r)]
           /\ cancelled' = [cancelled EXCEPT ![s] = @ \/ CancelsOnError(r)]
           /\ IF ~r.err
              THEN /\ callerPc' = [callerPc EXCEPT ![s] = "returned"]
                   /\ pqPc' = [pqPc EXCEPT ![s] = "wait"]
              ELSE /\ callerPc' = [callerPc EXCEPT ![s] = "failed"]
                   /\ UNCHANGED pqPc
    /\ UNCHANGED << config, budget, closeCalls, params, schedVars, recvVars,
                    pqSent >>

\* the caller cancels the context it passed to Browse / Lookup
Cancel(s) ==
    /\ callerPc[s] # "idle"
    /\ ~cancelled[s]
    /\ cancelled' = [cancelled EXCEPT ![s] = TRUE]
    /\ UNCHANGED << config, budget, closeCalls, params, callerPc, schedVars,
                    recvVars, pqVars >>

\* --------------------------------------------------------- recv, recvUnicast

\* the head of the receive loop: return when ctx.Err() != nil, else read
RecvTop(s) == IF cancelled[s] THEN "done" ELSE "read"

\* the receive activity returning on a datagram that does not unpack
AfterJunk_Return(s) == "done"

\* msg.Unpack failed: log, continue
AfterJunk(s) == RecvTop(s)

\* ReadFrom returns a datagram: one that does not unpack is dropped
RecvRead(s, c) ==
    /\ recvPc[s][c] = "read"
    /\ closeCalls[c] = 0
    /\ budget > 0
    /\ budget' = budget - 1
    /\ \E d \in net :
          IF d.kind = "dns"
          THEN /\ recvPc' = [recvPc EXCEPT ![s][c] = "send"]
               /\ recvMsg' = [recvMsg EXCEPT ![s][c] =
                                [msg |-> d.msg, src |-> SrcOf(c)]]
               /\ UNCHANGED dropped
          ELSE /\ recvPc' = [recvPc EXCEPT ![s][c] = AfterJunk(s)]
               /\ dropped' = [dropped EXCEPT ![s][c] = @ + 1]
               /\ UNCHANGED recvMsg
    /\ UNCHANGED << config, closeCalls, params, callerPc, cancelled, schedVars,
                    pqVars >>

\* a receive loop that cancels the session when ReadFrom fails
CancelsOnReadError_Always(s) == TRUE

\* recv and recvUnicast on a read error: fatalErr = err; continue. Nothing
\* is cancelled
CancelsOnReadError(s) == FALSE

\* ReadFrom returns an error (the socket was closed): fatalErr, return
RecvReadErr(s, c) ==
    /\ recvPc[s][c] = "read"
    /\ closeCalls[c] > 0
    /\ recvPc' = [recvPc EXCEPT ![s][c] = "done"]
    /\ cancelled' = [cancelled EXCEPT ![s] = @ \/ CancelsOnReadError(s)]
    /\ UNCHANGED << config, budget, closeCalls, params, callerPc,
                    schedVars, recvMsg, dropped, pqVars >>

\* a message channel that takes whatever is sent
HasRoom_Always(ch) == TRUE

\* a send on msgCh can proceed: the buffer of the channel is not full
HasRoom(ch) == Len(ch) < MsgChCap

\* select: case msgCh <- dMsg
RecvEnqueue(s, c) ==
    /\ recvPc[s][c] = "send"
    /\ HasRoom(msgCh[s])
    /\ msgCh' = [msgCh EXCEPT ![s] = Append(@, recvMsg[s][c])]
    /\ recvMsg' = [recvMsg EXCEPT ![s][c] = NoEnvelope]
    /\ recvPc' = [recvPc EXCEPT ![s][c] = RecvTop(s)]
    /\ UNCHANGED << config, budget, closeCalls, params, callerPc, cancelled,
                    schedPc, entries, pending, cur, sentEntries, processed,
                    outLog, streamCloses, stopProbing, dropped, pqVars >>

\* a select whose ctx.Done() arm is never ready
AbortReady_Never(s) == FALSE

\* the ctx.Done() arm of the select around the enqueue is ready
AbortReady(s) == cancelled[s]

\* select: case <-ctx.Done()
RecvAbort(s, c) ==
    /\ recvPc[s][c] = "send"
    /\ AbortReady(s)
    /\ recvMsg' = [recvMsg EXCEPT ![s][c] = NoEnvelope]
    /\ recvPc' = [recvPc EXCEPT ![s][c] = "done"]
    /\ UNCHANGED << config, budget, closeCalls, params, callerPc, cancelled,
                    schedVars, dropped, pqVars >>

RecvStep(s, c) ==
    \/ RecvRead(s, c)
    \/ RecvReadErr(s, c)
    \/ RecvEnqueue(s, c)
    \/ RecvAbort(s, c)

\* client.recv: the receive activity of a multicast socket
recv(s, c) == c \in {Multicast4, Multicast6} /\ RecvStep(s, c)

\* client.recvUnicast: the receive activity of a unicast listener
recvUnicast(s, c) == c \in Unicast4 \cup Unicast6 /\ RecvStep(s, c)

\* ----------------------------------------------------------------- mainloop

\* mainloop up to its select: one receive activity per socket of the client
MainloopStart(s) ==
    /\ schedPc[s] = "start"
    /\ recvPc' = [recvPc EXCEPT ![s] =
                    [c \in SockIds |->
                        IF c \in ClientSockets(client) THEN RecvTop(s)
                        ELSE "off"]]
    /\ schedPc' = [schedPc EXCEPT ![s] = "select"]
    /\ UNCHANGED << config, budget, closeCalls, params, callerPc, cancelled,
                    msgCh, entries, pending, cur, sentEntries, processed,
                    outLog, streamCloses, stopProbing, recvMsg, dropped,
                    pqVars >>

\* where mainloop stands once the keys left are the emission loop's rest
LoopPc(left) == IF left = {} THEN "select" ELSE "range"

\* the return after c.shutdown() left out: back to the select
AfterShutdown_Loop == "select"

\* where mainloop stands after params.done() and c.shutdown(): it returns
AfterShutdown == "done"

\* select: case <-ctx.Done(): params.done(), c.shutdown(), return
SchedCancel(s) ==
    /\ schedPc[s] = "select"
    /\ cancelled[s]
    /\ streamCloses' = [streamCloses EXCEPT ![s] = @ + 1]
    /\ closeCalls' = [c \in SockIds |->
                        IF c \in ShutdownCloses(client) THEN closeCalls[c] + 1
                        ELSE closeCalls[c]]
    /\ schedPc' = [schedPc EXCEPT ![s] = AfterShutdown]
    /\ UNCHANGED << config, budget, params, callerPc, cancelled, msgCh,
                    entries, pending, cur, sentEntries, processed, outLog,
                    stopProbing, recvVars, pqVars >>

\* select: case dnsMsgData := <-msgCh: the two loops over the sections
SchedRecv(s) ==
    /\ schedPc[s] = "select"
    /\ msgCh[s] # << >>
    /\ LET env == Head(msgCh[s])
           es == Received(params[s], entries[s], env)
       IN  /\ msgCh' = [msgCh EXCEPT ![s] = Tail(@)]
           /\ processed' = [processed EXCEPT ![s] = Append(@, env)]
           /\ entries' = [entries EXCEPT ![s] = es]
           /\ pending' = [pending EXCEPT ![s] = DOMAIN es]
           /\ schedPc' = [schedPc EXCEPT ![s] = LoopPc(DOMAIN es)]
    /\ UNCHANGED << config, budget, closeCalls, params, callerPc, cancelled,
                    cur, sentEntries, outLog, streamCloses, stopProbing,
                    recvVars, pqVars >>

\* one iteration of `for k, e := range entries`, up to the send on Entries
SchedRange(s) ==
    /\ schedPc[s] = "range"
    /\ \E k \in pending[s] :
         LET e == entries[s][k]
             act == EntryAction(params[s], sentEntries[s], k, e)
         IN  IF act = "send"
             THEN /\ entries' = [entries EXCEPT ![s][k] =
                                    WithFallback(params[s], e)]
                  /\ cur' = [cur EXCEPT ![s] = k]
                  /\ schedPc' = [schedPc EXCEPT ![s] = "send"]
                  /\ UNCHANGED << pending, sentEntries >>
             ELSE /\ entries' = [entries EXCEPT ![s] =
                                    IF act = "bye" THEN MapDel(@, k) ELSE @]
                  /\ sentEntries' = [sentEntries EXCEPT ![s] =
                                    IF act = "bye" THEN Forget(@, k) ELSE @]
                  /\ pending' = [pending EXCEPT ![s] = @ \ {k}]
                  /\ schedPc' = [schedPc EXCEPT ![s] =
                                    LoopPc(pending[s] \ {k})]
                  /\ UNCHANGED cur
    /\ UNCHANGED << config, budget, closeCalls, params, callerPc, cancelled,
                    msgCh, processed, outLog, streamCloses, stopProbing,
                    recvVars, pqVars >>

\* params.Entries <- e completes: the consumer receives the entry
Deliver(s) ==
    /\ schedPc[s] = "send"
    /\ params[s].Entries = Reading
    /\ outLog' = [outLog EXCEPT ![s] =
                    Append(@, [key |-> cur[s], entry |-> entries[s][cur[s]],
                               at |-> Len(processed[s]),
                               closed |-> streamCloses[s] > 0])]
    /\ schedPc' = [schedPc EXCEPT ![s] = "sent"]
    /\ UNCHANGED << config, budget, closeCalls, params, callerPc, cancelled,
                    msgCh, entries, pending, cur, sentEntries, processed,
                    streamCloses, stopProbing, recvVars, pqVars >>

\* the rest of the iteration: sentEntries[k] = e, disableProbing
SchedSent(s) ==
    /\ schedPc[s] = "sent"
    /\ sentEntries' = [sentEntries EXCEPT ![s] = Remember(@, cur[s])]
    /\ stopProbing' = [stopProbing EXCEPT ![s] = @ \/ StopsProbing(params[s])]
    /\ pending' = [pending EXCEPT ![s] = @ \ {cur[s]}]
    /\ cur' = [cur EXCEPT ![s] = EmptyStr]
    /\ schedPc' = [schedPc EXCEPT ![s] = LoopPc(pending[s] \ {cur[s]})]
    /\ UNCHANGED << config, budget, closeCalls, params, callerPc, cancelled,
                    msgCh, entries, processed, outLog, streamCloses, recvVars,
                    pqVars >>

\* ------------------------------------------------------------ periodicQuery

\* a caller's goroutine that cancels whatever periodicQuery returns
CancelsOnReturn_Always(err) == TRUE

\* the goroutine Browse and Lookup start around periodicQuery:
\* if err := r.c.periodicQuery(ctx, params); err != nil { cancel() }
CancelsOnReturn(err) == err # "nil"

\* select: case <-timer.C
PQTimer(s) ==
    /\ pqPc[s] = "wait"
    /\ pqSent[s] < MaxPeriodic
    /\ pqPc' = [pqPc EXCEPT ![s] = "query"]
    /\ UNCHANGED << config, budget, closeCalls, params, callerPc, cancelled,
                    schedVars, recvVars, pqSent, wire >>

\* select: case <-params.stopProbing: return nil
PQStop(s) ==
    /\ pqPc[s] = "wait"
    /\ stopProbing[s]
    /\ pqPc' = [pqPc EXCEPT ![s] = "done"]
    /\ cancelled' = [cancelled EXCEPT ![s] = @ \/ CancelsOnReturn("nil")]
    /\ UNCHANGED << config, budget, closeCalls, params, callerPc,
                    schedVars, recvVars, pqSent, wire >>

\* select: case <-ctx.Done(): return ctx.Err(), and the caller's goroutine
\* cancels the context that is cancelled already
PQCancel(s) ==
    /\ pqPc[s] = "wait"
    /\ cancelled[s]
    /\ pqPc' = [pqPc EXCEPT ![s] = "done"]
    /\ cancelled' = [cancelled EXCEPT ![s] = @ \/ CancelsOnReturn("ctx")]
    /\ UNCHANGED << config, budget, closeCalls, params, callerPc,
                    schedVars, recvVars, pqSent, wire >>

\* c.query(params) after the timer: on an error periodicQuery returns it and
\* the caller's goroutine cancels the session
PQQuery(s) ==
    /\ pqPc[s] = "query"
    /\ LET r == query(client, host, Closed, params[s])
       IN  /\ wire' = [wire EXCEPT ![s] = Append(@, r)]
           /\ IF ~r.err
              THEN /\ pqSent' = [pqSent EXCEPT ![s] = @ + 1]
                   /\ pqPc' = [pqPc EXCEPT ![s] = "wait"]
                   /\ UNCHANGED cancelled
              ELSE /\ pqPc' = [pqPc EXCEPT ![s] = "done"]
                   /\ cancelled' = [cancelled EXCEPT ![s] =
                                        @ \/ CancelsOnReturn("err")]
                   /\ UNCHANGED pqSent
    /\ UNCHANGED << config, budget, closeCalls, params, callerPc, schedVars,
                    recvVars >>

periodicQuery(s) == PQTimer(s) \/ PQStop(s) \/ PQCancel(s) \/ PQQuery(s)

mainloop(s) ==
    \/ MainloopStart(s)
    \/ SchedCancel(s)
    \/ SchedRecv(s)
    \/ SchedRange(s)
    \/ SchedSent(s)

Next ==
    \E s \in Sessions :
        \/ Browse(s)
        \/ Lookup(s)
        \/ InitialQuery(s)
        \/ Cancel(s)
        \/ mainloop(s)
        \/ Deliver(s)
        \/ periodicQuery(s)
        \/ \E c \in SockIds : recv(s, c) \/ recvUnicast(s, c)

\* ----------------------------------------------------------- specifications

OneIface == {1}
GoodHost ==
    MkHost(TRUE, TRUE, OneIface, OneIface, OneIface, Unicast4, Unicast6,
           "linux", {}, {})

\* the engine opens every socket itself: both multicast sockets
EngineOpts == MkOpts(IPv4AndIPv6, {}, FALSE, NoConn, NoConn, NilList, NilList)
\* the v4 multicast socket and a v4 unicast listener, engine-opened
EngineV4Unicast == MkOpts(IPv4, {}, TRUE, NoConn, NoConn, NilList, NilList)
\* the v6 multicast socket and a v6 unicast listener, engine-opened
EngineV6Unicast == MkOpts(IPv6, {}, TRUE, NoConn, NoConn, NilList, NilList)

Scenario(o, h, ds, n, cs, ss) ==
    [opts |-> o, host |-> h, net |-> ds, n |-> n, calls |-> cs, sessions |-> ss]

InitFrom(scenarios) ==
    \E sc \in scenarios :
        InitWith(sc.opts, sc.host, sc.net, sc.n, sc.calls, sc.sessions)

BrowseSvc == BrowseCall(SvcType, EmptyStr)
LookupHost == LookupCall(Inst1, SvcType, Local)
BrowseEnum == BrowseCall(EnumType, Local)
BrowseBad == BrowseCall(BadType, Local)

\* one session: announce / goodbye / re-announce on the two multicast
\* sockets; a lookup among announcements, goodbyes and datagrams that do not
\* unpack; incomplete, reordered and multi-instance responses; the
\* enumeration; a v6-only engine; a query that does not pack
CorrelatorScenarios ==
    { Scenario(EngineOpts, GoodHost, {FullResponse, Goodbye},
               MaxDatagrams, {BrowseSvc}, {1}),
      Scenario(EngineOpts, GoodHost, {FullResponse, Goodbye, Junk},
               MaxDatagrams - 1, {LookupHost}, {1}),
      Scenario(EngineV4Unicast, GoodHost,
               {TwoInstances, FullResponseAddrFirst},
               MaxDatagrams - 1, {BrowseSvc, LookupHost}, {1}),
      Scenario(EngineV4Unicast, GoodHost, {NoAddrResponse, PtrOnly},
               MaxDatagrams - 1, {BrowseSvc, LookupHost}, {1}),
      Scenario(EngineV6Unicast, GoodHost, {EnumResponse, EnumGoodbye},
               MaxDatagrams - 1, {BrowseEnum}, {1}),
      Scenario(EngineV6Unicast, GoodHost, {NoAddrResponse, ForeignResponse},
               MaxDatagrams - 1, {BrowseSvc}, {1}),
      Scenario(EngineOpts, GoodHost, {FullResponse}, 1, {BrowseBad}, {1}) }

Init == InitFrom(CorrelatorScenarios)

Spec == Init /\ [][Next]_vars

\* every combination of listen mode, EnableUnicast and WithCustomConn
\* arguments: each multicast connection nil or supplied, each unicast list
\* nil, empty or holding a supplied listener
AllOpts ==
    {MkOpts(l, {}, u, c4, c6, u4, u6) :
        l \in {IPv4, IPv6, IPv4AndIPv6}, u \in BOOLEAN,
        c4 \in {NoConn, {Multicast4}}, c6 \in {NoConn, {Multicast6}},
        u4 \in {NilList, List({}), List(Unicast4)},
        u6 \in {NilList, List({}), List(Unicast6)}}

\* a supplied v4 multicast socket beside an engine-opened v6 one
CustomV4Opts ==
    MkOpts(IPv4AndIPv6, {}, FALSE, {Multicast4}, NoConn, NilList, NilList)

\* one session on every combination of sockets, and two sessions on one
\* Resolver that holds a supplied and an engine-opened socket
SocketScenarios ==
    { Scenario(o, GoodHost, {FullResponse}, MaxSweepDatagrams, {BrowseSvc}, {1})
        : o \in AllOpts }
    \cup
    { Scenario(CustomV4Opts, GoodHost, {FullResponse}, MaxSweepDatagrams,
               {LookupHost}, {1}) }
    \cup
    { Scenario(CustomV4Opts, GoodHost, {FullResponse}, MaxSharedDatagrams,
               {BrowseSvc}, Sessions) }

InitSockets == InitFrom(SocketScenarios)

SpecSockets == InitSockets /\ [][Next]_vars

\* one session, on engine-opened sockets and beside a supplied socket
FairScenarios ==
    { Scenario(EngineV4Unicast, GoodHost, {FullResponse}, MaxSweepDatagrams,
               {BrowseSvc, LookupHost}, {1}),
      Scenario(CustomV4Opts, GoodHost, {FullResponse}, MaxSweepDatagrams,
               {BrowseSvc, LookupHost, BrowseBad}, {1}) }

InitFair == InitFrom(FairScenarios)

\* the session the fair scenarios start
FairSessions == {1}

\* the steps of the mainloop goroutine that need nobody else: the send on
\* Entries completes only when the consumer receives
SchedulerStep(s) ==
    MainloopStart(s) \/ SchedCancel(s) \/ SchedRecv(s) \/ SchedRange(s)
        \/ SchedSent(s)

\* the steps of a receive goroutine that need no datagram: ReadFrom on a
\* closed socket returns, and the select after a read has an arm ready
ReceiverStep(s, c) == RecvReadErr(s, c) \/ RecvEnqueue(s, c) \/ RecvAbort(s, c)

\* the steps of the periodicQuery goroutine other than the timer firing
ProberStep(s) == PQStop(s) \/ PQCancel(s) \/ PQQuery(s)

\* What the Go scheduler guarantees: a goroutine that can run its next
\* statement runs it (weak fairness), and a select whose arm is ready again
\* and again takes it (strong fairness: the arm is picked at random among
\* the ready ones).  Nothing obliges the caller to cancel, the consumer to
\* receive from Entries, the network to deliver a datagram or the backoff
\* timer to be the arm taken.
Fairness ==
    \A s \in FairSessions :
        /\ WF_vars(InitialQuery(s))
        /\ WF_vars(SchedulerStep(s))
        /\ WF_vars(ProberStep(s))
        /\ \A c \in SockIds : WF_vars(ReceiverStep(s, c))
        /\ SF_vars(SchedCancel(s))
        /\ SF_vars(PQStop(s))
        /\ SF_vars(PQCancel(s))

FairSpec == InitFair /\ [][Next]_vars /\ Fairness

\* the part of the scheduling the receive goroutines need: one that can run
\* its next statement runs it
ReceiverFairness ==
    \A s \in FairSessions : \A c \in SockIds : WF_vars(ReceiverStep(s, c))

SubName ==
    << "_printer", Dot, "_sub", Dot, "_svc", Dot, "_tcp", Dot, "local", Dot >>
\* a service type and a domain written with dots around them
DottedType == << Dot, "_svc", Dot, "_tcp", Dot >>
DottedLocal == << "local", Dot >>
BrowseSub == BrowseSubCall(SvcType, Local, << SubName, SvcName >>)
BrowseDotted == BrowseCall(DottedType, DottedLocal)
LookupDotted == LookupCall(Inst1, DottedType, DottedLocal)

TwoIfaces == {1, 2}
\* the writes sendQuery can make on a client with both multicast sockets
SendPairs == {Multicast4, Multicast6} \X TwoIfaces
\* two interfaces, every set of failing writes, with the interface pinned in
\* the control message or selected on the socket (and the selection failing)
SendHosts ==
    {MkHost(TRUE, TRUE, TwoIfaces, TwoIfaces, TwoIfaces, Unicast4, Unicast6,
            g, sf, wf) :
        g \in {"linux", "windows"},
        sf \in {{}, {<< Multicast4, 1 >>},
                {<< Multicast4, 2 >>, << Multicast6, 2 >>}},
        wf \in SUBSET SendPairs}

\* one Browse session under every pattern of failing writes, and one session
\* for each shape of query
SendScenarios ==
    { Scenario(EngineOpts, h, {FullResponse}, MaxSendDatagrams, {BrowseSvc},
               {1}) : h \in SendHosts }
    \cup
    { Scenario(EngineV4Unicast, GoodHost, {FullResponse}, MaxSweepDatagrams,
               {BrowseSub, BrowseDotted, LookupHost, LookupDotted, BrowseBad},
               {1}) }

InitSend == InitFrom(SendScenarios)

SpecSend == InitSend /\ [][Next]_vars

\* listen mode v4+v6 on the interfaces ifs (all multicast interfaces when
\* empty), every socket engine-opened
OptsOn(ifs) == MkOpts(IPv4AndIPv6, ifs, FALSE, NoConn, NoConn, NilList, NilList)

\* hosts with 0, 1 or 2 multicast interfaces on which each family's bind and
\* each group join succeeds or fails
SetupHosts ==
    {MkHost(b4, b6, j4, j6, mi, Unicast4, Unicast6, "linux", {}, {}) :
        b4 \in BOOLEAN, b6 \in BOOLEAN,
        j4 \in SUBSET TwoIfaces, j6 \in SUBSET TwoIfaces,
        mi \in {{}, {1}, TwoIfaces}}

\* NewResolver on every such host, for each listen mode and interface list,
\* then one Browse session on the engines that were built; and one session
\* of each kind on a host where everything works
SetupScenarios ==
    { Scenario(o, h, {FullResponse}, MaxSendDatagrams, {BrowseSvc}, {1}) :
        o \in {OptsOn({}), OptsOn({2}), OptsOn(TwoIfaces),
               EngineV4Unicast, EngineV6Unicast},
        h \in SetupHosts }
    \cup
    { Scenario(EngineV4Unicast, GoodHost, {FullResponse}, MaxSweepDatagrams,
               {BrowseSvc, LookupHost}, {1}) }

InitSetup == InitFrom(SetupScenarios)

SpecSetup == InitSetup /\ [][Next]_vars

\* the v4 multicast socket alone, engine-opened
EngineV4Only == MkOpts(IPv4, {}, FALSE, NoConn, NoConn, NilList, NilList)

\* a burst of responses for a Browse session whose consumer never receives,
\* and one session of each kind whose consumer does
BurstScenarios ==
    { Scenario(EngineV4Only, GoodHost, {SrvOnly}, MaxBurst,
               {WithStalledConsumer(BrowseSvc)}, {1}),
      Scenario(EngineV4Unicast, GoodHost, {FullResponse}, MaxSweepDatagrams,
               {BrowseSvc, LookupHost}, {1}) }

InitBurst == InitFrom(BurstScenarios)

SpecBurst == InitBurst /\ [][Next]_vars

\* the burst on a stalled consumer with nothing assumed of the scheduler,
\* the prober, the caller or the consumer
FairBurstSpec == InitBurst /\ [][Next]_vars /\ ReceiverFairness


\* responses that carry records of another service type, alone and mixed with
\* records of the requested one, for a browse, a lookup and the enumeration
FrameScenarios ==
    { Scenario(EngineV4Unicast, GoodHost,
               {MixedResponse, ForeignResponse, Goodbye},
               MaxDatagrams - 1, {BrowseSvc, LookupHost, BrowseEnum}, {1}) }

InitFrame == InitFrom(FrameScenarios)

SpecFrame == InitFrame /\ [][Next]_vars

\* r.Lookup with an empty instance argument
LookupAny == LookupCall(EmptyStr, SvcType, Local)

\* lookups of instance Host, and of no instance in particular, while
\* instance Other answers as well
LookupScenarios ==
    { Scenario(EngineV4Unicast, GoodHost,
               {FullResponse, OtherResponse, TwoInstances},
               MaxDatagrams - 1, {LookupHost, LookupAny}, {1}),
      Scenario(EngineV4Unicast, GoodHost, {OtherResponse},
               MaxSweepDatagrams, {BrowseSvc}, {1}) }

InitLookup == InitFrom(LookupScenarios)

SpecLookup == InitLookup /\ [][Next]_vars

\* every arrangement of a set of records in one message
RECURSIVE Arrangements(_)
Arrangements(S) ==
    IF S = {} THEN {<< >>}
    ELSE UNION {{<< x >> \o t : t \in Arrangements(S \ {x})} : x \in S}

\* what a responder announces for instance Host: the PTR record with the
\* long TTL of shared records, the SRV record with the short TTL of records
\* tied to the host name, and the v4 address of the host
AnnouncedRecords ==
    {PTR(SvcName, I1, 4500), SRV(I1, Host1, 9, 120), A(Host1, Addr4)}

\* its answer to a lookup over IPv6: the SRV record and the v6 address
AnnouncedV6Records == {SRV(I1, Host1, 9, 120), AAAA(Host1, Addr6)}

\* each response in every order of its records, for a browse and a lookup
OrderScenarios ==
    { Scenario(EngineV4Unicast, GoodHost,
               {Dns(m) : m \in Arrangements(AnnouncedRecords)
                                \cup Arrangements(AnnouncedV6Records)},
               MaxSweepDatagrams, {BrowseSvc, LookupHost}, {1}) }

InitOrder == InitFrom(OrderScenarios)

SpecOrder == InitOrder /\ [][Next]_vars

\* partial responses for instance Host, a PTR record alone and a TXT record
\* alone, ahead of and behind a response that is complete for it and has
\* neither of the two records
PartialScenarios ==
    { Scenario(EngineV4Unicast, GoodHost, {PtrOnly, TxtOnly, TwoInstances},
               MaxDatagrams - 1, {BrowseSvc, LookupHost}, {1}) }

InitPartial == InitFrom(PartialScenarios)

SpecPartial == InitPartial /\ [][Next]_vars

\* every listen mode, with and without unicast listeners, on all multicast
\* interfaces of the host or on interface 2 alone
WriteOpts ==
    {MkOpts(l, ifs, u, NoConn, NoConn, NilList, NilList) :
        l \in {IPv4, IPv6, IPv4AndIPv6}, u \in BOOLEAN, ifs \in {{}, {2}}}

\* hosts with one or two multicast interfaces, with the interface pinned in
\* the control message or selected on the socket, and a write that fails
WriteHosts ==
    {MkHost(TRUE, TRUE, TwoIfaces, TwoIfaces, mi, Unicast4, Unicast6, g,
            {<< Multicast6, 2 >>}, wf) :
        mi \in {{2}, TwoIfaces}, g \in {"linux", "windows"},
        wf \in {{}, {<< Multicast4, 2 >>}}}

\* the queries of a browse and of a lookup on every such engine and host,
\* and a session that receives, beside a query that does not pack
WriteScenarios ==
    { Scenario(o, h, {FullResponse}, MaxSendDatagrams,
               {BrowseSvc, LookupHost}, {1}) :
        o \in WriteOpts, h \in WriteHosts }
    \cup
    { Scenario(EngineV4Unicast, GoodHost, {FullResponse}, MaxSweepDatagrams,
               {LookupHost, BrowseBad}, {1}) }

InitWrite == InitFrom(WriteScenarios)

SpecWrite == InitWrite /\ [][Next]_vars

\* --------------------------------------------------------------- properties

Keys == {I1, I2, IAlt, SvcName}

\* record rr defines (part of) the entry keyed k
DefinesKey(rr, k) ==
    \/ rr.type = "PTR" /\ rr.ptr = k
    \/ rr.type \in {"SRV", "TXT"} /\ rr.name = k

\* the envelope carries a TTL=0 record for k
HasGoodbyeRecord(env, k) ==
    \E i \in 1 .. Len(env.msg) : DefinesKey(env.msg[i], k) /\ env.msg[i].ttl = 0

\* the envelope is a goodbye for k: it has records for k, all with TTL=0
PureGoodbye(env, k) ==
    /\ \E i \in 1 .. Len(env.msg) : DefinesKey(env.msg[i], k)
    /\ \A i \in 1 .. Len(env.msg) :
          DefinesKey(env.msg[i], k) => env.msg[i].ttl = 0

\* the envelope is a complete non-zero-TTL response for k: an SRV record for
\* k, an address record for the SRV target, and no TTL=0 record for k
CompleteResponse(env, k) ==
    /\ \E i, j \in 1 .. Len(env.msg) :
          /\ env.msg[i].type = "SRV" /\ env.msg[i].name = k
          /\ env.msg[j].type \in {"A", "AAAA"}
          /\ env.msg[j].name = env.msg[i].target
    /\ ~HasGoodbyeRecord(env, k)

\* k names an instance the session asks for
KeyOfSession(p, k) ==
    /\ HasSuffix(k, ServiceNameOf(p.Service, p.Domain))
    /\ k # ServiceNameOf(p.Service, p.Domain)
    /\ p.Instance # EmptyStr =>
          k = ServiceInstanceNameOf(p.Instance, p.Service, p.Domain)

\* the positions of outLog[s] at which k was sent while envelope number
\* lo .. hi was being processed
Emissions(s, k, lo, hi) ==
    {i \in 1 .. Len(outLog[s]) :
        outLog[s][i].key = k /\ outLog[s][i].at \in lo .. hi}

\* the scheduler is through with envelope number j
Processed(s, j) ==
    \/ Len(processed[s]) > j
    \/ Len(processed[s]) = j /\ schedPc[s] \in {"select", "done"}

\* C1: every ServiceEntry sent on the output stream has TTL > 0 when it is
\* sent, in browse, lookup and service-type-enumeration sessions alike.
C1_EmittedTTLPositive ==
    \A s \in Sessions : \A i \in 1 .. Len(outLog[s]) :
        outLog[s][i].entry.TTL > 0

\* C1 witness: an entry was sent after an envelope with a TTL=0 record for
\* its key had been processed
C1_Witness ==
    \E s \in Sessions : \E i \in 1 .. Len(outLog[s]) :
        \E g \in 1 .. outLog[s][i].at :
            HasGoodbyeRecord(processed[s][g], outLog[s][i].key)

\* C2: when the session's ServiceTypeName differs from its ServiceName, every
\* entry sent on the output stream has at least one address
C2_EmittedHasAddress ==
    \A s \in Sessions :
        ServiceTypeNameOf(params[s].Domain)
            # ServiceNameOf(params[s].Service, params[s].Domain)
        => \A i \in 1 .. Len(outLog[s]) :
              Len(outLog[s][i].entry.AddrIPv4)
                + Len(outLog[s][i].entry.AddrIPv6) >= 1

\* C2 witness: an entry was sent for an envelope that carried no A / AAAA
\* record, in a session that is not the service-type enumeration
C2_Witness ==
    \E s \in Sessions : \E i \in 1 .. Len(outLog[s]) :
        /\ ServiceTypeNameOf(params[s].Domain)
             # ServiceNameOf(params[s].Service, params[s].Domain)
        /\ LET env == processed[s][outLog[s][i].at]
           IN  \A j \in 1 .. Len(env.msg) : env.msg[j].type \notin {"A", "AAAA"}

\* C3: an instance is sent a second time only after an envelope with a TTL=0
\* record for it was processed in between; never twice for one envelope
C3_OncePerGoodbye ==
    \A s \in Sessions : \A i, j \in 1 .. Len(outLog[s]) :
        (i < j /\ outLog[s][i].key = outLog[s][j].key)
        => \E g \in (outLog[s][i].at + 1) .. (outLog[s][j].at - 1) :
              HasGoodbyeRecord(processed[s][g], outLog[s][i].key)

\* C3 witness: an instance was sent twice
C3_Witness ==
    \E s \in Sessions : \E i, j \in 1 .. Len(outLog[s]) :
        i < j /\ outLog[s][i].key = outLog[s][j].key

\* the envelopes number i and j > i carry the same complete response for k,
\* i is the session's first envelope or follows a goodbye for k, and no
\* envelope between them carries a TTL=0 record for k
Replayed(s, k, i, j) ==
    /\ i < j
    /\ j <= Len(processed[s])
    /\ processed[s][i].msg = processed[s][j].msg
    /\ CompleteResponse(processed[s][i], k)
    /\ KeyOfSession(params[s], k)
    /\ i = 1 \/ PureGoodbye(processed[s][i - 1], k)
    /\ \A g \in i .. j : ~HasGoodbyeRecord(processed[s][g], k)

\* C4: the same non-zero-TTL response processed twice (from whichever
\* sockets, in whichever order they were enqueued) yields exactly one
\* emission for its instance
C4_ReplayEmitsOnce ==
    \A s \in Sessions : \A k \in Keys : \A i, j \in 1 .. Len(processed[s]) :
        (Replayed(s, k, i, j) /\ Processed(s, j))
        => Cardinality(Emissions(s, k, i, j)) = 1

\* C4 witness: the two copies of a replayed response arrived on different
\* sockets
C4_Witness ==
    \E s \in Sessions : \E k \in Keys : \E i, j \in 1 .. Len(processed[s]) :
        /\ Replayed(s, k, i, j)
        /\ Processed(s, j)
        /\ processed[s][i].src # processed[s][j].src

\* k was sent before envelope number g and envelope g is a goodbye for k
GoodbyeAfterEmission(s, k, g) ==
    /\ g <= Len(processed[s])
    /\ PureGoodbye(processed[s][g], k)
    /\ Emissions(s, k, 1, g - 1) # {}

\* C5: after an instance was emitted, a goodbye envelope for it produces no
\* emission and removes it from sentEntries, and a complete non-zero-TTL
\* response in the next envelope produces exactly one further emission
C5_GoodbyeThenReannounce ==
    \A s \in Sessions : \A k \in Keys : \A g \in 1 .. Len(processed[s]) :
        GoodbyeAfterEmission(s, k, g)
        => /\ Emissions(s, k, g, g) = {}
           /\ (Processed(s, g) /\ Len(processed[s]) = g)
                 => k \notin sentEntries[s]
           /\ (g < Len(processed[s]) /\ Processed(s, g + 1)
                 /\ CompleteResponse(processed[s][g + 1], k))
                 => Cardinality(Emissions(s, k, g + 1, g + 1)) = 1

\* C5 witness: emission, goodbye, and the re-announcement emitted again
C5_Witness ==
    \E s \in Sessions : \E k \in Keys : \E g \in 1 .. Len(processed[s]) :
        /\ GoodbyeAfterEmission(s, k, g)
        /\ g < Len(processed[s])
        /\ Processed(s, g + 1)
        /\ CompleteResponse(processed[s][g + 1], k)
        /\ Cardinality(Emissions(s, k, g + 1, g + 1)) = 1

\* C8: a session's output stream is closed at most once, only by the
\* scheduler on cancellation (which then has returned), it is closed once the
\* scheduler has returned, and no entry is sent on a closed stream
C8_StreamClosedOnce ==
    \A s \in Sessions :
        /\ streamCloses[s] <= 1
        /\ streamCloses[s] = 1 <=> schedPc[s] = "done"
        /\ schedPc[s] = "done" => cancelled[s]
        /\ \A i \in 1 .. Len(outLog[s]) : ~outLog[s][i].closed

\* C8 witness: a stream that carried an entry has been closed
C8_Witness ==
    \E s \in Sessions : streamCloses[s] = 1 /\ Len(outLog[s]) >= 1

\* C6: a socket the caller supplied through WithCustomConn is never closed
\* by the engine, whatever the combination of supplied and engine-opened
\* sockets and however many sessions are torn down
C6_CallerSocketsNeverClosed ==
    \A c \in CallerSockets(opts) : closeCalls[c] = 0

\* C6 witness: a session was torn down on a client that holds a supplied
\* socket and an engine-opened one, and the engine-opened one was closed
C6_Witness ==
    /\ \E s \in Sessions : schedPc[s] = "done"
    /\ CallerSockets(opts) \cap ClientSockets(client) # {}
    /\ \E c \in ClientSockets(client) \ CallerSockets(opts) : closeCalls[c] > 0

\* C7: every socket the engine opened itself is closed once a session has
\* been torn down, and Close is never called on it a second time, also with
\* several sessions on the same Resolver
C7_EngineSocketsClosedOnce ==
    \A c \in ClientSockets(client) \ CallerSockets(opts) :
        /\ closeCalls[c] <= 1
        /\ (\E s \in Sessions : schedPc[s] = "done") => closeCalls[c] = 1

\* the activities of session s have all returned
Terminated(s) ==
    /\ schedPc[s] = "done"
    /\ \A c \in SockIds : recvPc[s][c] \in {"off", "done"}
    /\ pqPc[s] \in {"never", "done"}

\* C9: once a session is cancelled, in every fair execution its output
\* stream is closed, every socket the engine opened is closed and the
\* scheduler, the receive activities and the periodic query have returned,
\* whatever the consumer does and whoever owns the sockets
C9_CancelTearsDown ==
    \A s \in Sessions :
        cancelled[s] ~>
            /\ streamCloses[s] = 1
            /\ \A c \in ClientSockets(client) \ CallerSockets(opts) :
                   closeCalls[c] >= 1
            /\ Terminated(s)

AddrsOf(e) ==
    {e.AddrIPv4[i] : i \in 1 .. Len(e.AddrIPv4)}
        \cup {e.AddrIPv6[i] : i \in 1 .. Len(e.AddrIPv6)}

\* C12: a Lookup session that has emitted keeps its scheduler running until
\* it is cancelled, and once the scheduler is through with a later envelope
\* that carries an A / AAAA record for the emitted instance's host, the
\* consumer has received an entry of that instance with that address
C12_LaterAddressesDelivered ==
    \A s \in Sessions :
        (~params[s].isBrowsing /\ Len(outLog[s]) >= 1) =>
            LET first == outLog[s][1]
            IN  /\ ~cancelled[s] => schedPc[s] # "done"
                /\ \A j \in (first.at + 1) .. Len(processed[s]) :
                     Processed(s, j) =>
                       \A r \in 1 .. Len(processed[s][j].msg) :
                         LET rr == processed[s][j].msg[r]
                         IN  (rr.type \in {"A", "AAAA"}
                                /\ rr.name = first.entry.HostName)
                             => \E i \in 1 .. Len(outLog[s]) :
                                   /\ outLog[s][i].key = first.key
                                   /\ rr.ip \in AddrsOf(outLog[s][i].entry)

\* C13: Browse and Lookup have called client.query once when they return;
\* they return nil only when that query returned no error, and then the
\* periodic query is started; when it returned an error they return it with
\* the session cancelled and the periodic query never started
C13_InitialQuerySynchronous ==
    \A s \in Sessions :
        /\ callerPc[s] \in {"returned", "failed"} => Len(wire[s]) >= 1
        /\ callerPc[s] = "returned" => ~wire[s][1].err
        /\ callerPc[s] = "failed" =>
              /\ wire[s][1].err
              /\ wire[s][1].writes = << >>
              /\ cancelled[s]
              /\ pqPc[s] = "never"
              /\ pqSent[s] = 0
              /\ Len(wire[s]) = 1
        /\ pqPc[s] # "never" => callerPc[s] = "returned"

\* C13 witness: the initial query failed and the scheduler, started before
\* the query, has torn the session down and closed the output stream
C13_Witness ==
    \E s \in Sessions :
        /\ callerPc[s] = "failed"
        /\ schedPc[s] = "done"
        /\ streamCloses[s] = 1

\* lookupParams of every shape: with and without an instance, with no, one
\* and two subtypes, with names written with and without dots around them
QueryInputs ==
    {[newLookupParams(i, sv, d, b) EXCEPT !.Subtypes = st] :
        i \in {EmptyStr, Inst1}, sv \in {SvcType, DottedType, BadType},
        d \in {Local, DottedLocal}, b \in BOOLEAN,
        st \in {<< >>, << SubName >>, << SubName, SvcName >>}}

\* the question section the claim asks for
ExpectedQuestions(p) ==
    LET instanceFQDN == p.Instance \o << Dot >> \o ServiceName(p)
    IN  IF p.Instance # EmptyStr
        THEN << [Name |-> instanceFQDN, Qtype |-> "SRV", Qclass |-> "IN"],
                [Name |-> instanceFQDN, Qtype |-> "TXT", Qclass |-> "IN"] >>
        ELSE IF p.Subtypes # << >>
        THEN << [Name |-> Head(p.Subtypes), Qtype |-> "PTR", Qclass |-> "IN"] >>
        ELSE << [Name |-> ServiceName(p), Qtype |-> "PTR", Qclass |-> "IN"] >>

\* C14: the question section of every query is {instanceFQDN, SRV, IN} and
\* {instanceFQDN, TXT, IN} when the instance is set (subtypes or not), else
\* {subtypes[0], PTR, IN} when there are subtypes, else {serviceName, PTR,
\* IN}, and RecursionDesired is false; for the queries the sessions sent and
\* for lookupParams of every shape
C14_QuestionSection ==
    /\ \A s \in Sessions : \A i \in 1 .. Len(wire[s]) :
          /\ wire[s][i].msg.Question = ExpectedQuestions(params[s])
          /\ ~wire[s][i].msg.RecursionDesired
    /\ \A p \in QueryInputs :
          /\ QueryMsg(p).Question = ExpectedQuestions(p)
          /\ ~QueryMsg(p).RecursionDesired

\* C14 witness: a Browse session with subtypes sent its initial query and a
\* periodic query, both asking for the first subtype
C14_Witness ==
    \E s \in Sessions :
        /\ Len(params[s].Subtypes) = 2
        /\ Len(wire[s]) = 2
        /\ wire[s][2].msg.Question = << Question(SubName, "PTR") >>

\* the interfaces newClient works on
EffectiveIfaces == IF opts.ifaces = {} THEN host.multicastIfaces ELSE opts.ifaces

\* the v4 (v6) multicast socket can be set up: the bind succeeds and at
\* least one group join succeeds
FamilyUp4 == host.bind4 /\ EffectiveIfaces \cap host.join4 # {}
FamilyUp6 == host.bind6 /\ EffectiveIfaces \cap host.join6 # {}

\* C15: with listen mode v4+v6 and no custom connection, the engine is built
\* with the sockets of the families that could be set up, and construction
\* fails only when neither family could
C15_OneFamilyEnough ==
    (opts.listenOn = IPv4AndIPv6 /\ CallerSockets(opts) = {}
        /\ opts.customIPv4Unicast.isNil /\ opts.customIPv6Unicast.isNil) =>
        /\ client.ok <=> (FamilyUp4 \/ FamilyUp6)
        /\ client.ok =>
              /\ client.ipv4conn = IF FamilyUp4 THEN {Multicast4} ELSE NoConn
              /\ client.ipv6conn = IF FamilyUp6 THEN {Multicast6} ELSE NoConn

\* what the claim asks of a join function's result j for socket sock, when
\* the bind succeeded and joinOK are the interfaces whose join succeeds
JoinOutcomeOK(j, sock, joinOK, interfaces) ==
    LET eff == IF interfaces = {} THEN host.multicastIfaces ELSE interfaces
    IN  IF eff \cap joinOK = {}
        THEN j.err /\ j.conn = NoConn /\ j.closed = {sock}
        ELSE ~j.err /\ j.conn = {sock} /\ j.closed = {}

\* C16: for each family and every list of interfaces, when the bind
\* succeeded: if every group join fails (or there is no interface to join
\* on) the socket is closed and an error returned; if at least one join
\* succeeds the socket is returned open without error.  A multicast socket
\* the engine opened for a client joined the group on some interface.
C16_JoinAllOrSome ==
    /\ \A interfaces \in SUBSET TwoIfaces :
          /\ host.bind4 =>
                JoinOutcomeOK(joinUdp4Multicast(interfaces, host), Multicast4,
                              host.join4, interfaces)
          /\ host.bind6 =>
                JoinOutcomeOK(joinUdp6Multicast(interfaces, host), Multicast6,
                              host.join6, interfaces)
    /\ (client.ok /\ ~client.ipv4connManaged /\ client.ipv4conn # NoConn)
          => client.ifaces \cap host.join4 # {}
    /\ (client.ok /\ ~client.ipv6connManaged /\ client.ipv6conn # NoConn)
          => client.ifaces \cap host.join6 # {}

\* C16 witness: a session reads from a v4 multicast socket that was kept
\* although the join failed on one of the two interfaces
C16_Witness ==
    /\ client.ok
    /\ ~client.ipv4connManaged
    /\ client.ifaces = TwoIfaces
    /\ Cardinality(client.ifaces \cap host.join4) = 1
    /\ \E s \in Sessions : recvPc[s][Multicast4] = "read"

\* C17: a step in which a receive activity reads a datagram that does not
\* unpack enqueues nothing, leaves the scheduler's state (entries,
\* sentEntries, the output stream) and every other activity as they were,
\* and leaves the activity at the head of its loop: about to read the next
\* datagram, or returning when the session was cancelled meanwhile
C17_JunkDropped ==
    [][\A s \in Sessions : \A c \in SockIds :
          dropped'[s][c] # dropped[s][c] =>
              /\ recvPc[s][c] = "read"
              /\ recvPc'[s][c] = IF cancelled[s] THEN "done" ELSE "read"
              /\ \A t \in Sessions : \A d \in SockIds :
                    << t, d >> # << s, c >> => recvPc'[t][d] = recvPc[t][d]
              /\ recvMsg' = recvMsg
              /\ UNCHANGED << schedVars, pqVars, closeCalls, cancelled,
                              callerPc, params >>]_vars

\* C17 witness: a receive activity that dropped a datagram has read the next
\* one and the entry built from it reached the consumer
C17_Witness ==
    \E s \in Sessions : \E c \in SockIds :
        /\ dropped[s][c] >= 1
        /\ Len(outLog[s]) >= 1
        /\ processed[s][outLog[s][1].at].src = SrcOf(c)
        /\ \A d \in SockIds \ {c} : dropped[s][d] = 0
        /\ Len(processed[s]) = 1

\* the <<socket, interface>> pairs of the writes ws
Attempted(ws) == {<< ws[i].sock, ws[i].iface >> : i \in 1 .. Len(ws)}

\* C18: a call of client.query returns an error exactly when its message
\* does not pack, and then it wrote nothing; otherwise it attempted one write
\* for every interface on each multicast socket of the client, whichever of
\* them failed or could not select the interface
C18_WriteFailuresNotFatal ==
    \A s \in Sessions : \A i \in 1 .. Len(wire[s]) :
        LET r == wire[s][i]
            all == (client.ipv4conn \cup client.ipv6conn) \X client.ifaces
        IN  /\ r.err <=> ~PackOK(r.msg)
            /\ r.err => r.writes = << >>
            /\ ~r.err => /\ Attempted(r.writes) = all
                         /\ Len(r.writes) = Cardinality(all)

\* C18 witness: the first write of a query failed, on an interface that
\* could not be selected either, and the query went on to the second
\* interface and to the v6 socket, where the last write succeeded
C18_Witness ==
    \E s \in Sessions :
        /\ Len(wire[s]) >= 1
        /\ ~wire[s][1].err
        /\ Len(wire[s][1].writes) = 4
        /\ ~wire[s][1].writes[1].ok
        /\ ~wire[s][1].writes[1].selected
        /\ wire[s][1].writes[4].sock = Multicast6
        /\ wire[s][1].writes[4].ok
        /\ callerPc[s] = "returned"

\* the envelopes the receive activities of session s hold outside msgCh
InFlight(s) == {c \in SockIds : recvPc[s][c] = "send"}

\* C19: the message channel holds at most its capacity, which is at least
\* 256; a receive activity holds at most the one envelope it is enqueueing,
\* and when the channel is full it cannot enqueue it
C19_ChannelBounded ==
    /\ MsgChCap >= 256
    /\ \A s \in Sessions :
          /\ Len(msgCh[s]) <= MsgChCap
          /\ Len(msgCh[s]) + Cardinality(InFlight(s))
                <= MsgChCap + Cardinality(ClientSockets(client))
          /\ Len(msgCh[s]) = MsgChCap =>
                \A c \in SockIds : ~ENABLED RecvEnqueue(s, c)

\* C19 witness: the consumer stopped receiving, the scheduler is blocked in
\* the send on Entries, the channel is full, and the receive activity is
\* blocked in its enqueue while the network has another datagram for it
C19_Witness ==
    \E s \in Sessions :
        /\ params[s].Entries = Stalled
        /\ schedPc[s] = "send"
        /\ Len(msgCh[s]) = MsgChCap
        /\ InFlight(s) = ClientSockets(client)
        /\ budget >= 1
        /\ ~cancelled[s]

\* the records the claim speaks of: a PTR record whose header name is not the
\* ServiceName, an SRV or TXT record whose header name does not end in it
Ignored(p, rr) ==
    \/ rr.type = "PTR" /\ rr.name # ServiceName(p)
    \/ rr.type \in {"SRV", "TXT"} /\ ~HasSuffix(rr.name, ServiceName(p))

WithoutIgnored(p, env) ==
    [env EXCEPT !.msg = SelectSeq(@, LAMBDA rr : ~Ignored(p, rr))]

\* what the two loops make of envelope i of session s once the ignored
\* records are taken out of it
KeptEntries(s, i) ==
    Correlate(params[s], WithoutIgnored(params[s], processed[s][i]))

\* C20: the ignored records leave no trace: the entries map of the envelope
\* in hand, every emitted entry and every key of sentEntries are what the
\* envelopes give without them
C20_ForeignRecordsIgnored ==
    \A s \in Sessions :
        /\ Len(processed[s]) > 0 =>
              LET es == KeptEntries(s, Len(processed[s]))
              IN  /\ DOMAIN entries[s] \subseteq DOMAIN es
                  /\ \A k \in DOMAIN entries[s] :
                        entries[s][k] \in {es[k], WithFallback(params[s], es[k])}
                  /\ schedPc[s] \in {"range", "send", "sent"} =>
                        pending[s] \subseteq DOMAIN es
        /\ \A i \in 1 .. Len(outLog[s]) :
              LET o == outLog[s][i]
                  es == KeptEntries(s, o.at)
              IN  /\ o.key \in DOMAIN es
                  /\ o.entry = WithFallback(params[s], es[o.key])
        /\ sentEntries[s] \subseteq
              UNION {DOMAIN KeptEntries(s, i) : i \in 1 .. Len(processed[s])}

\* C20 witness: an envelope made of ignored records only went through the
\* loops, and an entry was emitted from an envelope that held ignored records
\* next to its own
C20_Witness ==
    \E s \in Sessions :
        /\ \E i \in 1 .. Len(processed[s]) :
              /\ processed[s][i].msg # << >>
              /\ \A j \in 1 .. Len(processed[s][i].msg) :
                    processed[s][i].msg[j].type \in {"PTR", "SRV", "TXT"} =>
                        Ignored(params[s], processed[s][i].msg[j])
        /\ \E i \in 1 .. Len(outLog[s]) :
              \E j \in 1 .. Len(processed[s][outLog[s][i].at].msg) :
                  Ignored(params[s], processed[s][outLog[s][i].at].msg[j])

\* session s was started by Lookup
IsLookup(s) == callerPc[s] # "idle" /\ ~params[s].isBrowsing

\* everything session s holds or has delivered is keyed by its
\* ServiceInstanceName
OnlyOwnInstance(s) ==
    /\ DOMAIN entries[s] \subseteq {ServiceInstanceName(params[s])}
    /\ sentEntries[s] \subseteq {ServiceInstanceName(params[s])}
    /\ \A i \in 1 .. Len(outLog[s]) :
          outLog[s][i].key = ServiceInstanceName(params[s])

\* C21 as stated: in every Lookup session the entries map, sentEntries and
\* every delivered entry are keyed by the session's ServiceInstanceName
C21_LookupOnlyInstance ==
    \A s \in Sessions : IsLookup(s) => OnlyOwnInstance(s)

\* C21: in a Lookup session whose instance argument is not empty the entries
\* map, sentEntries and every delivered entry are keyed by the session's
\* ServiceInstanceName
C21_NamedLookupOnlyInstance ==
    \A s \in Sessions :
        IsLookup(s) /\ params[s].Instance # EmptyStr => OnlyOwnInstance(s)

\* C21 witness: a lookup of instance Host delivered its entry from an
\* envelope that also carried an SRV record of another instance
C21_Witness ==
    \E s \in Sessions :
        /\ IsLookup(s) /\ params[s].Instance # EmptyStr
        /\ \E i \in 1 .. Len(outLog[s]) :
              \E j \in 1 .. Len(processed[s][outLog[s][i].at].msg) :
                 LET rr == processed[s][outLog[s][i].at].msg[j]
                 IN  /\ rr.type = "SRV"
                     /\ HasSuffix(rr.name, ServiceName(params[s]))
                     /\ rr.name # ServiceInstanceName(params[s])

\* the envelope in hand carries an SRV record for key k that passes the filter
HasSrvFor(s, k) ==
    \E j \in 1 .. Len(processed[s][Len(processed[s])].msg) :
        LET rr == processed[s][Len(processed[s])].msg[j]
        IN  rr.type = "SRV" /\ rr.name = k
            /\ InstanceRecordMatches(params[s], rr)

\* the step of the emission loop on key k: an entry that is live, unsent and
\* without an address record goes to the send with AddrIPv4 = [SrcAddr] when
\* an SRV record gave it a source address, and is passed over otherwise
FallbackStep(s, k) ==
    LET e == entries[s][k]
    IN  (/\ RequiresAddress(params[s])
         /\ e.TTL # 0
         /\ k \notin sentEntries[s]
         /\ NoAddress(e))
        => /\ (e.SrcAddr.len > 0) <=> HasSrvFor(s, k)
           /\ IF e.SrcAddr.len > 0
              THEN /\ schedPc'[s] = "send"
                   /\ cur'[s] = k
                   /\ entries'[s][k].AddrIPv4 = << e.SrcAddr >>
                   /\ entries'[s][k].AddrIPv6 = << >>
              ELSE /\ schedPc'[s] # "send"
                   /\ entries'[s] = entries[s]
                   /\ UNCHANGED << sentEntries, outLog >>

\* C22: outside the enumeration, an entry with a non-zero TTL, not in
\* sentEntries and without a matching A / AAAA record is sent with
\* AddrIPv4 = [SrcAddr] exactly when its SrcAddr is known, and is not sent
\* when SrcAddr is empty
C22_FallbackExactlyWhenSourceKnown ==
    [][\A s \in Sessions :
          /\ (schedPc[s] = "range" /\ schedPc'[s] = "send")
                => FallbackStep(s, cur'[s])
          /\ (schedPc[s] = "range" /\ pending'[s] # pending[s])
                => \A k \in pending[s] \ pending'[s] : FallbackStep(s, k)]_vars

\* C22 witness: an envelope with a PTR record alone was passed over, and the
\* entry was then delivered from an envelope with an SRV record and no
\* address record, carrying the source address
C22_Witness ==
    \E s \in Sessions :
        /\ RequiresAddress(params[s])
        /\ \E i \in 1 .. Len(processed[s]) :
              /\ \E k \in DOMAIN Correlate(params[s], processed[s][i]) :
                    LET e == Correlate(params[s], processed[s][i])[k]
                    IN  e.TTL # 0 /\ NoAddress(e) /\ e.SrcAddr.len = 0
              /\ \A j \in 1 .. Len(outLog[s]) : outLog[s][j].at # i
        /\ \E j \in 1 .. Len(outLog[s]) :
              LET o == outLog[s][j]
              IN  /\ NoAddress(Correlate(params[s], processed[s][o.at])[o.key])
                  /\ o.entry.AddrIPv4 = << o.entry.SrcAddr >>
                  /\ o.entry.SrcAddr.len > 0

\* C23: every address in AddrIPv4 of a delivered entry is a 4-byte address
\* and every address in AddrIPv6 is a 16-byte address
C23_AddressFamilies ==
    \A s \in Sessions :
        \A i \in 1 .. Len(outLog[s]) :
            LET e == outLog[s][i].entry
            IN  /\ \A j \in 1 .. Len(e.AddrIPv4) : e.AddrIPv4[j].len = 4
                /\ \A j \in 1 .. Len(e.AddrIPv6) : e.AddrIPv6[j].len = 16

\* C24: a periodic query is sent only while neither the cancellation nor the
\* probe-stop signal of its session has fired, and so never on a socket that
\* teardown has closed
C24_NoQueryAfterSignal ==
    [][\A s \in Sessions :
          pqPc[s] = "query" /\ wire'[s] # wire[s]
             => /\ ~cancelled[s]
                /\ ~stopProbing[s]
                /\ LET ws == wire'[s][Len(wire'[s])].writes
                   IN  \A i \in 1 .. Len(ws) : ws[i].sock \notin Closed]_vars

\* C25: once the cancellation of a session has fired its scheduler takes no
\* further envelope from msgCh and delivers no further entry
C25_NothingProcessedAfterCancel ==
    [][\A s \in Sessions :
          cancelled[s] => /\ processed'[s] = processed[s]
                          /\ outLog'[s] = outLog[s]]_vars

\* C26: periodicQuery ends on the cancellation, on probe-stop or on a query
\* that fails; ending with an error leaves the session cancelled, ending on
\* probe-stop cancels nothing and leaves the scheduler as it is, and the
\* scheduler of a session that is not cancelled has not ended
C26_ProberTermination ==
    [][\A s \in Sessions :
          /\ (pqPc[s] # "done" /\ pqPc'[s] = "done") =>
                \/ /\ pqPc[s] = "query"
                   /\ wire'[s][Len(wire'[s])].err
                   /\ cancelled'[s]
                \/ /\ pqPc[s] = "wait"
                   /\ cancelled[s]
                   /\ cancelled'[s]
                \/ /\ pqPc[s] = "wait"
                   /\ stopProbing[s]
                   /\ ~cancelled[s]
                   /\ ~cancelled'[s]
                   /\ schedPc'[s] = schedPc[s]
          /\ schedPc'[s] = "done" => cancelled'[s]]_vars

\* C26 witness: the prober of a lookup ended on probe-stop, the session is
\* not cancelled and its scheduler is still in its loop
C26_Witness ==
    \E s \in Sessions :
        /\ pqPc[s] = "done"
        /\ stopProbing[s]
        /\ ~cancelled[s]
        /\ schedPc[s] \in {"select", "range", "send", "sent"}

\* the step of receive activity c of session s in which ReadFrom fails
ReadErrorStep(s, c) ==
    /\ recvPc[s][c] = "read"
    /\ recvPc'[s][c] = "done"
    /\ budget' = budget

C28_BlockedEnqueueExitsOnCancel ==
    \A s \in FairSessions :
        []<>(\A c \in SockIds : ~(recvPc[s][c] = "send" /\ cancelled[s]))

\* C28 witness: the consumer never received, the channel is still full
\* behind the blocked scheduler, the session is cancelled and the receive
\* activity has ended with its last envelope neither queued nor processed
C28_Witness ==
    \E s \in FairSessions :
        /\ params[s].Entries = Stalled
        /\ cancelled[s]
        /\ schedPc[s] = "send"
        /\ Len(msgCh[s]) = MsgChCap
        /\ Len(processed[s]) = 1
        /\ budget = MaxBurst - (MsgChCap + 2)
        /\ \A c \in ClientSockets(client) : recvPc[s][c] = "done"

OfType(msg, t) == SelectSeq(msg, LAMBDA rr : rr.type = t)

\* m2 holds the records of m1 with the records of each type in the same
\* order among themselves
SameRecordsPerType(m1, m2) ==
    \A t \in {"PTR", "SRV", "TXT", "A", "AAAA"} : OfType(m1, t) = OfType(m2, t)

\* m2 is m1 with its address records moved: the PTR, SRV and TXT records
\* keep their order, and so do the A records and the AAAA records
AddressesMoved(m1, m2) ==
    /\ SelectSeq(m1, LAMBDA rr : rr.type \in {"PTR", "SRV", "TXT"})
          = SelectSeq(m2, LAMBDA rr : rr.type \in {"PTR", "SRV", "TXT"})
    /\ OfType(m1, "A") = OfType(m2, "A")
    /\ OfType(m1, "AAAA") = OfType(m2, "AAAA")

\* the entry delivered from envelope i of session s under key k is the one
\* the same envelope gives with its records as in message m
SameEntryFrom(s, o, m) ==
    LET es == Correlate(params[s],
                        [processed[s][o.at] EXCEPT !.msg = m])
    IN  /\ o.key \in DOMAIN es
        /\ o.entry = WithFallback(params[s], es[o.key])

\* C29 as stated: the delivered entry is the same for every order of the
\* records of different types in the envelope
C29_AnyOrderSameEntry ==
    \A s \in Sessions : \A i \in 1 .. Len(outLog[s]) :
        \A d \in net :
            SameRecordsPerType(processed[s][outLog[s][i].at].msg, d.msg)
                => SameEntryFrom(s, outLog[s][i], d.msg)

\* C29: the delivered entry is the same wherever the A and AAAA records sit
\* among the PTR, SRV and TXT records of the envelope, and it carries the
\* address of every A (AAAA) record whose header name is its HostName
C29_AddressOrderSameEntry ==
    \A s \in Sessions : \A i \in 1 .. Len(outLog[s]) :
        LET o == outLog[s][i]
            m == processed[s][o.at].msg
        IN  /\ \A d \in net :
                  AddressesMoved(m, d.msg) => SameEntryFrom(s, o, d.msg)
            /\ \A j \in 1 .. Len(m) :
                  /\ (m[j].type = "A" /\ m[j].name = o.entry.HostName)
                        => \E n \in 1 .. Len(o.entry.AddrIPv4) :
                              o.entry.AddrIPv4[n] = m[j].ip
                  /\ (m[j].type = "AAAA" /\ m[j].name = o.entry.HostName)
                        => \E n \in 1 .. Len(o.entry.AddrIPv6) :
                              o.entry.AddrIPv6[n] = m[j].ip

\* C29 witness: an entry was delivered, with its address, from an envelope
\* whose A record comes first, ahead of the PTR and the SRV record
C29_Witness ==
    \E s \in Sessions : \E i \in 1 .. Len(outLog[s]) :
        LET o == outLog[s][i]
            m == processed[s][o.at].msg
        IN  /\ o.entry.AddrIPv4 = << Addr4 >>
            /\ Len(m) = 3
            /\ m[1].type = "A"

\* the addresses of an entry, of both families
AddressSet(e) ==
    {e.AddrIPv4[n] : n \in 1 .. Len(e.AddrIPv4)}
        \cup {e.AddrIPv6[n] : n \in 1 .. Len(e.AddrIPv6)}

\* key k was never withdrawn in the envelopes i .. j of session s
LiveThrough(s, k, i, j) ==
    \A n \in i .. j :
        LET es == Correlate(params[s], processed[s][n])
        IN  k \in DOMAIN es => es[k].TTL # 0

\* C30: while the scheduler holds the entries of an envelope, the entry of
\* an instance still has every address an earlier envelope gave for that
\* instance
C30_AddressesAccumulate ==
    \A s \in Sessions :
        schedPc[s] \in {"range", "send", "sent"} =>
            \A i \in 1 .. Len(processed[s]) - 1 :
                LET earlier == Correlate(params[s], processed[s][i])
                IN  \A k \in DOMAIN earlier \cap DOMAIN entries[s] :
                        LiveThrough(s, k, i, Len(processed[s]))
                            => AddressSet(earlier[k])
                                  \subseteq AddressSet(entries[s][k])

\* envelope number i of session s left a partial entry under key k: an entry
\* with a non-zero TTL, no address and no source address, in a session that
\* requires an address
Partial(s, i, k) ==
    /\ RequiresAddress(params[s])
    /\ k \in DOMAIN Correlate(params[s], processed[s][i])
    /\ LET e == Correlate(params[s], processed[s][i])[k]
       IN  e.TTL # 0 /\ NoAddress(e) /\ e.SrcAddr.len = 0

\* C31: the correlator keeps no partial entry between envelopes. An entry
\* that is passed over for having no address and no source address is not
\* emitted from its envelope and is not added to sentEntries; every entry
\* emitted afterwards is built from the records of its own envelope alone;
\* and a later envelope with the complete response for the instance is
\* emitted once, as it is when no partial response came before it
C31_NoPartialEntries ==
    \A s \in Sessions : \A i \in 1 .. Len(processed[s]) : \A k \in Keys :
        Partial(s, i, k) =>
            /\ Emissions(s, k, i, i) = {}
            /\ Emissions(s, k, 1, Len(processed[s])) = {}
                  => k \notin sentEntries[s]
            /\ \A n \in 1 .. Len(outLog[s]) :
                  LET o == outLog[s][n]
                  IN  o.at > i =>
                        o.entry = WithFallback(params[s],
                            Correlate(params[s], processed[s][o.at])[o.key])
            /\ \A j \in (i + 1) .. Len(processed[s]) :
                  (/\ CompleteResponse(processed[s][j], k)
                   /\ KeyOfSession(params[s], k)
                   /\ Processed(s, j)
                   /\ Emissions(s, k, 1, j - 1) = {})
                  => Cardinality(Emissions(s, k, j, j)) = 1

\* C31 witness: a TXT record alone left a partial entry with a text, and the
\* complete response that came next, which has no TXT record, was delivered
\* with an empty text
C31_Witness ==
    \E s \in Sessions : \E k \in Keys :
        /\ Len(processed[s]) = 2
        /\ Partial(s, 1, k)
        /\ Correlate(params[s], processed[s][1])[k].Text # << >>
        /\ CompleteResponse(processed[s][2], k)
        /\ \E n \in 1 .. Len(outLog[s]) :
              /\ outLog[s][n].key = k
              /\ outLog[s][n].at = 2
              /\ outLog[s][n].entry.Text = << >>
              /\ outLog[s][n].entry.AddrIPv4 # << >>

\* envelope number j of session s gives, from PTR records alone, an entry
\* under key k with a non-zero TTL: no address and no source address
PtrAlone(s, j, k) ==
    /\ k \in DOMAIN Correlate(params[s], processed[s][j])
    /\ LET e == Correlate(params[s], processed[s][j])[k]
       IN  e.TTL # 0 /\ NoAddress(e) /\ e.SrcAddr.len = 0
    /\ \A n \in 1 .. Len(processed[s][j].msg) :
          LET rr == processed[s][j].msg[n]
          IN  DefinesKey(rr, k) => rr.type = "PTR"

\* k is not in sentEntries when the emission loop of envelope number j visits
\* it: every earlier emission of k was followed by a withdrawal of k
NotYetSent(s, k, j) ==
    \A i \in 1 .. (j - 1) :
        Emissions(s, k, i, i) # {} => ~LiveThrough(s, k, i + 1, j - 1)

\* C32: in the service-type enumeration (ServiceTypeName equals ServiceName)
\* an entry created from a matching PTR record alone, with a non-zero TTL
\* and not yet in sentEntries, is emitted once from its envelope, as the
\* records give it: without an address and without a source address
C32_EnumerationPtrEmitted ==
    \A s \in Sessions : \A j \in 1 .. Len(processed[s]) : \A k \in Keys :
        (/\ ServiceTypeName(params[s]) = ServiceName(params[s])
         /\ PtrAlone(s, j, k)
         /\ NotYetSent(s, k, j)
         /\ Processed(s, j))
        => /\ Cardinality(Emissions(s, k, j, j)) = 1
           /\ \A n \in Emissions(s, k, j, j) :
                 /\ outLog[s][n].entry
                        = Correlate(params[s], processed[s][j])[k]
                 /\ NoAddress(outLog[s][n].entry)
                 /\ outLog[s][n].entry.SrcAddr.len = 0

\* C32 witness: an enumeration session delivered a service type from the PTR
\* record of its first envelope, with the record's TTL and no address
C32_Witness ==
    \E s \in Sessions : \E k \in Keys :
        /\ ServiceTypeName(params[s]) = ServiceName(params[s])
        /\ Len(processed[s]) >= 1
        /\ PtrAlone(s, 1, k)
        /\ Processed(s, 1)
        /\ \E n \in Emissions(s, k, 1, 1) :
              /\ NoAddress(outLog[s][n].entry)
              /\ outLog[s][n].entry.TTL = 120

\* the positions in ws of the writes on socket sock for interface ifi
WritesFor(ws, sock, ifi) ==
    {j \in 1 .. Len(ws) : ws[j].sock = sock /\ ws[j].iface = ifi}

\* C33: a query is packed once and then written once per configured
\* interface on every multicast socket that is present: the writes of one
\* query number (configured interfaces) x (multicast sockets present among
\* v4 and v6), all carry the one packed buffer, each goes to the mDNS group of
\* its socket's family on port 5353, and none is made on a unicast listener;
\* a query that does not pack is not written at all
C33_WritesPerQuery ==
    \A s \in Sessions : \A i \in 1 .. Len(wire[s]) :
        LET r == wire[s][i]
            families == {f \in {IPv4, IPv6} :
                            IF f = IPv4 THEN client.ipv4conn # NoConn
                            ELSE client.ipv6conn # NoConn}
        IN  IF r.err THEN r.writes = << >>
            ELSE
            /\ Len(r.writes)
                  = Cardinality(client.ifaces) * Cardinality(families)
            /\ \A x \in client.ipv4conn \cup client.ipv6conn :
                  \A f \in client.ifaces :
                     Cardinality(WritesFor(r.writes, x, f)) = 1
            /\ \A j \in 1 .. Len(r.writes) :
                  LET w == r.writes[j]
                  IN  /\ w.buf = Pack(r.msg)
                      /\ w.sock \in client.ipv4conn \cup client.ipv6conn
                      /\ w.sock \notin client.ipv4unicastConn
                                          \cup client.ipv6unicastConn
                      /\ w.to.Port = 5353
                      /\ w.to.IP = IF w.sock \in client.ipv4conn
                                   THEN IP4("224.0.0.251")
                                   ELSE IP6("ff02::fb")

\* C33 witness: on a client with both multicast sockets, both unicast
\* listeners and two interfaces a query made four writes, two to each
\* group, and the periodic query after it made four more
C33_Witness ==
    \E s \in Sessions :
        /\ client.ipv4unicastConn # {} /\ client.ipv6unicastConn # {}
        /\ Cardinality(client.ifaces) = 2
        /\ Len(wire[s]) = 2
        /\ \A i \in 1 .. 2 :
              /\ Len(wire[s][i].writes) = 4
              /\ wire[s][i].writes[2].to.IP = IP4("224.0.0.251")
              /\ wire[s][i].writes[3].to.IP = IP6("ff02::fb")

====
